---- MODULE Spec2Model ----
(***************************************************************************)
(* A model of permanager (src/src/index.ts): the recursive evaluators of   *)
(* Permit, Privilege and Permission values, the checkers built on them and *)
(* the derived is / are / require operations.                               *)
(*                                                                         *)
(* JavaScript values are tagged records.  An async function call is a tree *)
(* of promise nodes: it runs synchronously up to its first await, and each *)
(* suspended await is resumed by a separate step, in any order.            *)
(***************************************************************************)
EXTENDS Naturals, Sequences, FiniteSets, TLC

VARIABLES
    args,       \* the tuples [subject, privilege, target] the client passes
    family,     \* "permit" or "permission": which API family the client uses
    cur,        \* index in OpOrder of the operation called last (0: none yet)
    busy,       \* TRUE while the promise of the current operation is pending
    idx,        \* index of the tuple the (bulk) operation is working on
    pc,         \* await the current checker is suspended at
    tree,       \* promise tree of the evaluator call being awaited
    roles,      \* checkPermit: the Role sequence being iterated
    ri,         \* checkPermit: index of the Role being checked
    ret,        \* Approval returned by the checker that completed last
    resumed,    \* positions of the awaits of tree that completed, in order
    calls,      \* ids of the caller-supplied functions invoked, per operation
    sched,      \* the awaits of checkPermit completed, in order of completion, per
                \* operation that the client compares
    trace,      \* the invocations of the current operation, each with the
                \* evaluator call (tuple, evaluator, Role) that made it
    results     \* outcomes of the completed operations, in call order

vars == <<args, family, cur, busy, idx, pc, tree, resumed, roles, ri, ret, calls, sched,
          trace, results>>

(***************************************************************************)
(* Bounds of the model.                                                    *)
(***************************************************************************)
MaxLen == 2         \* longest array literal in a Permit/Privilege/Permission
MaxTuples == 2      \* longest tuple list passed to a bulk operation
MaxDepth == 3       \* most array literals around a leaf of a nested permit

(***************************************************************************)
(* JavaScript values.                                                      *)
(***************************************************************************)
Undefined == [t |-> "undefined"]
\* null: typeof null is 'object'
Null == [t |-> "null"]
\* the object literal {}: reading its value or its error yields undefined
EmptyObject == [t |-> "Object", value |-> Undefined, error |-> Undefined]
Str(s) == [t |-> "string", s |-> s]
Bool(b) == [t |-> "boolean", b |-> b]
Num(n) == [t |-> "number", n |-> n]
BigInt(n) == [t |-> "bigint", n |-> n]
Arr(items) == [t |-> "array", items |-> items]
\* a pending computation that will resolve to v
Pending(v) == [t |-> "promise", v |-> v]
\* a caller-supplied function: returns hit when its argument is arg, else miss
Fn(id, arg, hit, miss) == [t |-> "function", id |-> id, arg |-> arg, hit |-> hit, miss |-> miss]
\* the object literal {type, permission} of a Continuation
Continuation(type, permission) == [t |-> "Continuation", type |-> type, permission |-> permission]
\* a caller-supplied privilege function that verifies continuation Roles: on a
\* Role whose value is a Continuation of its type it returns
\* checkPermission(role.value.permission, privilege, target), on any other
\* Role it returns miss
Verifier(id, type, privilege, target, miss) ==
    [t |-> "verifier", id |-> id, type |-> type, privilege |-> privilege, target |-> target,
     miss |-> miss]
\* the async functions that Permit.map(permit, mapper) and
\* Permission.map(permission, mapper) return
PermitMap(permit, mapper) == [t |-> "mapped", of |-> "permit", inner |-> permit, mapper |-> mapper]
PermissionMap(permission, mapper) ==
    [t |-> "mapped", of |-> "permission", inner |-> permission, mapper |-> mapper]
\* a caller-supplied error object that is not a Denial
CustomError(n) == [t |-> "CustomError", n |-> n]

TypeOf(x) ==
    CASE x.t = "string" -> "string"
      [] x.t = "boolean" -> "boolean"
      [] x.t = "number" -> "number"
      [] x.t = "bigint" -> "bigint"
      [] x.t = "undefined" -> "undefined"
      [] x.t \in {"function", "closure", "verifier", "mapped"} -> "function"
      [] OTHER -> "object"

IsPromise(x) == x.t = "promise"
IsArray(x) == x.t = "array"

\* new Denial(cause, value)
Denial(cause, value) == [t |-> "Denial", cause |-> cause, value |-> value]
\* new Error(message)
Error(message) == [t |-> "Error", message |-> message]

\* the object literal {value, error}
Approval(value, error) == [t |-> "Approval", value |-> value, error |-> error]
Role(value, error) == [t |-> "Role", value |-> value, error |-> error]

\* the value an await of x continues with
Awaited(x) == IF IsPromise(x) THEN x.v ELSE x

\* what the call of a function that throws err, and the await of a promise
\* that rejects with err, complete with
Thrown(err) == [t |-> "thrown", err |-> err]

\* f(a) for a caller-supplied function f
Invoke(f, a) == IF a = f.arg THEN f.hit ELSE f.miss

RECURSIVE Flat(_)
\* it.flatMap(it => it) on a sequence of sequences
Flat(ss) == IF Len(ss) = 0 THEN <<>> ELSE Head(ss) \o Flat(Tail(ss))

(***************************************************************************)
(* Promise trees.  A node is the promise returned by one evaluator call:   *)
(*   done      fulfilled with the sequence res                             *)
(*   rejected  rejected with err                                           *)
(*   await     suspended at an await that will continue with v             *)
(*   all       Promise.all(kids).then(flatMap)                             *)
(*   then      tree.then(f), where tree is the promise of a call of the    *)
(*             evaluator ev with the arguments ctx                         *)
(*   check     a call of checkPermit or checkPermission made by a function *)
(*   map       a call of a function made by Permit.map or Permission.map   *)
(***************************************************************************)
Done(res) == [k |-> "done", res |-> res]
Rejected(err) == [k |-> "rejected", err |-> err]
Await(v) == [k |-> "await", v |-> v]
\* the promise of a call of checkPermit (fam "permit") or checkPermission (fam
\* "permission") that a function made: the call awaits the promise tree of the
\* evaluator pc, and holds the Roles and the index of the Role of its loop
Check(fam, subject, privilege, target, inner) ==
    [k |-> "check", fam |-> fam, pc |-> fam, tree |-> inner, roles |-> <<>>, ri |-> 0,
     subject |-> subject, privilege |-> privilege, target |-> target]
\* the promise of a call of the function f that Permit.map or Permission.map
\* made, with the arguments privilege and target: the call awaits what the
\* mapper returned (stage "mapper"), then the evaluator of what f maps
\* (stage "inner", with the mapped target)
Mapping(f, privilege, target, inner) ==
    [k |-> "map", ev |-> f.of, x |-> f.inner, privilege |-> privilege, outer |-> target,
     target |-> Undefined, stage |-> "mapper", tree |-> inner]
Then(f, ev, ctx, inner) == [k |-> "then", f |-> f, ev |-> ev, ctx |-> ctx, tree |-> inner]

\* the TypeError that reading a property of null throws
TypeError == [t |-> "TypeError"]

\* Dedupe, were the repetitions kept
DedupeKeepsAll(s) == s

RECURSIVE Dedupe(_)
\* [...new Set(s)]: the elements of s without the repetitions, in the order of
\* their first occurrences
Dedupe(s) ==
    IF Len(s) = 0 THEN <<>>
    ELSE LET front == Dedupe(SubSeq(s, 1, Len(s) - 1))
             last == s[Len(s)]
         IN  IF \E i \in 1..Len(front) : front[i] = last THEN front ELSE Append(front, last)

\* the callbacks of createRoleSet, it.map(it => it.value) and then
\* [...new Set(it)], on the Roles it: whether they throw, and what they return
RoleSetThrows(it) == \E i \in 1..Len(it) : it[i] = Null
RoleSet(it) == Dedupe([i \in 1..Len(it) |-> it[i].value])

RECURSIVE IsRejected(_)
RECURSIVE IsFulfilled(_)
RECURSIVE Value(_)
RECURSIVE Reason(_)

IsRejected(n) == \/ n.k = "rejected"
                 \/ n.k = "all" /\ n.rej # <<>>
                 \/ n.k \in {"check", "map"} /\ IsRejected(n.tree)
                 \/ n.k = "then" /\ \/ IsRejected(n.tree)
                                    \/ IsFulfilled(n.tree) /\ RoleSetThrows(Value(n.tree))
IsFulfilled(n) == \/ n.k = "done"
                  \/ n.k = "all" /\ n.rej = <<>> /\ n.seen = 1..Len(n.kids)
                  \/ n.k = "then" /\ IsFulfilled(n.tree) /\ ~RoleSetThrows(Value(n.tree))
IsSettled(n) == IsRejected(n) \/ IsFulfilled(n)

\* the value a fulfilled node is fulfilled with
Value(n) == IF n.k = "done" THEN n.res
            ELSE IF n.k = "then" THEN RoleSet(Value(n.tree))
            ELSE Flat([i \in 1..Len(n.kids) |-> n.values[i]])
\* the reason a rejected node is rejected with
Reason(n) == IF n.k = "rejected" THEN n.err
             ELSE IF n.k \in {"check", "map"} THEN Reason(n.tree)
             ELSE IF n.k = "then"
             THEN IF IsRejected(n.tree) THEN Reason(n.tree) ELSE TypeError
             ELSE n.rej[1]

\* PromiseAllStore, were the values collected in the order of fulfilment
PromiseAllPush(values, i, v) == (Len(values) + 1 :> v) @@ values

\* Promise.all's reaction to the fulfilment of its i-th promise
PromiseAllStore(values, i, v) == (i :> v) @@ values

RECURSIVE Observe(_, _)
\* Promise.all's reactions to the promises that settled, oldest index first
Observe(n, todo) ==
    IF todo = {} THEN n
    ELSE LET i == CHOOSE j \in todo : \A m \in todo : j <= m
             kid == n.kids[i]
             n2 == IF IsRejected(kid)
                   THEN [n EXCEPT !.seen = @ \cup {i},
                                  !.rej = IF @ = <<>> THEN <<Reason(kid)>> ELSE @]
                   ELSE [n EXCEPT !.seen = @ \cup {i},
                                  !.values = PromiseAllStore(@, i, Value(kid))]
         IN  Observe(n2, todo \ {i})

Deliver(n) == Observe(n, {i \in 1..Len(n.kids) : i \notin n.seen /\ IsSettled(n.kids[i])})

\* Promise.all(kids).then(it => it.flatMap(it => it))
PromiseAll(kids) == Deliver([k |-> "all", kids |-> kids, values |-> <<>>, seen |-> {}, rej |-> <<>>])

RECURSIVE PendingPaths(_)
\* the positions of the suspended awaits of a promise tree
PendingPaths(n) ==
    CASE n.k = "await" -> {<<>>}
      [] n.k = "all" -> UNION {{<<i>> \o p : p \in PendingPaths(n.kids[i])} : i \in 1..Len(n.kids)}
      [] n.k = "then" -> {<<0>> \o p : p \in PendingPaths(n.tree)}
      [] n.k = "check" -> {<<0>> \o p : p \in PendingPaths(n.tree)}
                          \cup (IF IsFulfilled(n.tree) THEN {<<>>} ELSE {})
      [] n.k = "map" -> {<<0>> \o p : p \in PendingPaths(n.tree)}
                        \cup (IF n.stage = "inner" /\ IsFulfilled(n.tree) THEN {<<>>} ELSE {})
      [] OTHER -> {}


(***************************************************************************)
(* The evaluators.  Each returns the promise node of the call as it stands *)
(* at its first await together with the ids of the caller-supplied         *)
(* functions it invoked on the way, in invocation order.                   *)
(***************************************************************************)
Sync(node, ids) == [node |-> node, calls |-> ids]

\* Awaiting, were the error that a function throws caught by the evaluator,
\* which would then yield nothing for the function
AwaitingCatches(res, ids) ==
    IF res.t = "thrown" THEN Sync(Done(<<>>), ids)
    ELSE Sync(Await(Awaited(res)), ids)

\* `await f(...)` in an async evaluator, where the call of the function ids[1]
\* gave res: a function that throws rejects the evaluator's promise at once
Awaiting(res, ids) ==
    IF res.t = "thrown" THEN Sync(Rejected(res.err), ids)
    ELSE Sync(Await(Awaited(res)), ids)

RECURSIVE evaluatePermit(_, _)
RECURSIVE evaluatePrivilege(_, _)
RECURSIVE evaluatePermission(_, _, _)

\* Permission.create(permit)
PermissionCreate(permit) == [t |-> "closure", of |-> "create", permit |-> permit]
\* Role.continuation(type, permission, error)
RoleContinuation(type, permission, error) == Role(Continuation(type, permission), error)
\* Permission.continuation(type, permission, error)
PermissionContinuation(type, permission, error) ==
    [t |-> "closure", of |-> "continuation", permit |-> Role(Continuation(type, permission), error)]

\* checkPermitCall, were the target not handed on to checkPermit
checkPermitCallWithoutTarget(permit, privilege, target) ==
    LET r == evaluatePermit(permit, Undefined)
    IN  Sync(Check("permit", permit, privilege, Undefined, r.node), r.calls)

\* the call of a checker by a function: r is its evaluator call up to the
\* first await, which the checker awaits
Called(fam, subject, privilege, target, r) ==
    Sync(Check(fam, subject, privilege, target, r.node), r.calls)

\* checkPermit(permit, privilege, target), up to its first await
checkPermitCall(permit, privilege, target) ==
    Called("permit", permit, privilege, target, evaluatePermit(permit, target))

\* checkPermission(permission, privilege, target), up to its first await
checkPermissionCall(permission, privilege, target) ==
    Called("permission", permission, privilege, target,
           evaluatePermission(permission, privilege, target))

\* the invocations ids, followed by the call r
After(ids, r) == Sync(r.node, ids \o r.calls)

\* evaluatePermit, were the test for an object made before the test for an
\* array: an array is an object, and would be yielded as if it were a Role
evaluatePermitObjectFirst(permit, target) ==
    IF IsPromise(permit) THEN Sync(Await(permit.v), <<>>)
    ELSE IF TypeOf(permit) = "string" THEN
        Sync(Done(<<Role(permit, Denial("Permit", permit))>>), <<>>)
    ELSE IF TypeOf(permit) = "object" THEN Sync(Done(<<permit>>), <<>>)
    ELSE IF TypeOf(permit) = "function" THEN
        IF permit.t = "mapped"
        THEN Sync(Mapping(permit, Undefined, target,
                          Await(Awaited(Invoke(permit.mapper, target)))),
                  <<permit.mapper.id>>)
        ELSE Awaiting(Invoke(permit, target), <<permit.id>>)
    ELSE Sync(Rejected(Error("Invalid Permit Type")), <<>>)

evaluatePermit(permit, target) ==
    IF IsPromise(permit) THEN Sync(Await(permit.v), <<>>)
    ELSE IF IsArray(permit) THEN
        LET rs == [i \in 1..Len(permit.items) |-> evaluatePermit(permit.items[i], target)]
        IN  Sync(PromiseAll([i \in 1..Len(rs) |-> rs[i].node]),
                 Flat([i \in 1..Len(rs) |-> rs[i].calls]))
    ELSE IF TypeOf(permit) = "string" THEN
        Sync(Done(<<Role(permit, Denial("Permit", permit))>>), <<>>)
    ELSE IF TypeOf(permit) = "object" THEN Sync(Done(<<permit>>), <<>>)
    ELSE IF TypeOf(permit) = "function" THEN
        IF permit.t = "mapped"
        THEN Sync(Mapping(permit, Undefined, target,
                          Await(Awaited(Invoke(permit.mapper, target)))),
                  <<permit.mapper.id>>)
        ELSE Awaiting(Invoke(permit, target), <<permit.id>>)
    ELSE Sync(Rejected(Error("Invalid Permit Type")), <<>>)

\* evaluatePrivilege, were the siblings of an array evaluated only up to the
\* first one that yields a false Approval
evaluatePrivilegeUntilFalse(privilege, role) ==
    IF IsPromise(privilege) THEN Sync(Await(privilege.v), <<>>)
    ELSE IF IsArray(privilege) THEN
        LET rs == [i \in 1..Len(privilege.items) |-> evaluatePrivilege(privilege.items[i], role)]
            stop == {i \in 1..Len(rs) :
                        /\ rs[i].node.k = "done"
                        /\ \E j \in 1..Len(rs[i].node.res) : ~rs[i].node.res[j].value}
            n == IF stop = {} THEN Len(rs) ELSE CHOOSE i \in stop : \A j \in stop : i <= j
        IN  Sync(PromiseAll([i \in 1..n |-> rs[i].node]),
                 Flat([i \in 1..n |-> rs[i].calls]))
    ELSE IF TypeOf(privilege) = "boolean" THEN
        Sync(Done(<<Approval(privilege.b, Denial("Privilege", privilege))>>), <<>>)
    ELSE IF TypeOf(privilege) = "object" THEN Sync(Done(<<privilege>>), <<>>)
    ELSE IF TypeOf(privilege) = "function" THEN
        IF privilege.t = "verifier"
        THEN IF role.value.t = "Continuation" /\ role.value.type = privilege.type
             THEN After(<<privilege.id>>,
                        checkPermissionCall(role.value.permission, privilege.privilege,
                                            privilege.target))
             ELSE Awaiting(privilege.miss, <<privilege.id>>)
        ELSE Awaiting(Invoke(privilege, role.value), <<privilege.id>>)
    ELSE Sync(Rejected(Error("Invalid Privilege Type")), <<>>)

evaluatePrivilege(privilege, role) ==
    IF IsPromise(privilege) THEN Sync(Await(privilege.v), <<>>)
    ELSE IF IsArray(privilege) THEN
        LET rs == [i \in 1..Len(privilege.items) |-> evaluatePrivilege(privilege.items[i], role)]
        IN  Sync(PromiseAll([i \in 1..Len(rs) |-> rs[i].node]),
                 Flat([i \in 1..Len(rs) |-> rs[i].calls]))
    ELSE IF TypeOf(privilege) = "boolean" THEN
        Sync(Done(<<Approval(privilege.b, Denial("Privilege", privilege))>>), <<>>)
    ELSE IF TypeOf(privilege) = "object" THEN Sync(Done(<<privilege>>), <<>>)
    ELSE IF TypeOf(privilege) = "function" THEN
        IF privilege.t = "verifier"
        THEN IF role.value.t = "Continuation" /\ role.value.type = privilege.type
             THEN After(<<privilege.id>>,
                        checkPermissionCall(role.value.permission, privilege.privilege,
                                            privilege.target))
             ELSE Awaiting(privilege.miss, <<privilege.id>>)
        ELSE Awaiting(Invoke(privilege, role.value), <<privilege.id>>)
    ELSE Sync(Rejected(Error("Invalid Privilege Type")), <<>>)

evaluatePermission(permission, privilege, target) ==
    IF IsPromise(permission) THEN Sync(Await(permission.v), <<>>)
    ELSE IF IsArray(permission) THEN
        LET rs == [i \in 1..Len(permission.items) |->
                      evaluatePermission(permission.items[i], privilege, target)]
        IN  Sync(PromiseAll([i \in 1..Len(rs) |-> rs[i].node]),
                 Flat([i \in 1..Len(rs) |-> rs[i].calls]))
    ELSE IF TypeOf(permission) = "boolean" THEN
        Sync(Done(<<Approval(permission.b, Denial("Permission", permission))>>), <<>>)
    ELSE IF TypeOf(permission) = "object" THEN Sync(Done(<<permission>>), <<>>)
    ELSE IF TypeOf(permission) = "function" THEN
        IF permission.t = "closure"
        THEN checkPermitCall(permission.permit, privilege, target)
        ELSE IF permission.t = "mapped"
        THEN Sync(Mapping(permission, privilege, target,
                          Await(Awaited(Invoke(permission.mapper, target)))),
                  <<permission.mapper.id>>)
        ELSE Awaiting(Invoke(permission, target), <<permission.id>>)
    ELSE Sync(Rejected(Error("Invalid Permission Type")), <<>>)

\* FirstFalse, were the scan not to stop at the first false Approval
FirstFalseLast(approvals) ==
    approvals[CHOOSE i \in 1..Len(approvals) :
                /\ ~approvals[i].value
                /\ \A j \in i + 1..Len(approvals) : approvals[j].value]

\* the first Approval of approvals whose value is false
FirstFalse(approvals) ==
    approvals[CHOOSE i \in 1..Len(approvals) :
                /\ ~approvals[i].value
                /\ \A j \in 1..i - 1 : approvals[j].value]

\* checkPermit, were a privilege without Approvals reported as a Privilege denial
checkPermitPrivilegeError(approvals, role) ==
    IF Len(approvals) = 0 THEN <<Approval(FALSE, Denial("Privilege", Undefined))>>
    ELSE IF \E i \in 1..Len(approvals) : ~approvals[i].value
    THEN <<FirstFalse(approvals)>>
    ELSE <<>>

\* checkPermit, were the loop to go on after a Role without Approvals
checkPermitSkipsEmpty(approvals, role) ==
    IF Len(approvals) = 0 THEN <<>>
    ELSE IF \E i \in 1..Len(approvals) : ~approvals[i].value
    THEN <<FirstFalse(approvals)>>
    ELSE <<>>

\* checkPermit, for one Role: what the loop body makes of the Approvals the
\* privilege evaluated to: <<>> to go on with the next Role, else the Approval
\* to return
checkPermit(approvals, role) ==
    IF Len(approvals) = 0 THEN <<Approval(FALSE, role.error)>>
    ELSE IF \E i \in 1..Len(approvals) : ~approvals[i].value
    THEN <<FirstFalse(approvals)>>
    ELSE <<>>

\* checkPermission, were a permission without Approvals to pass
checkPermissionEmptyPasses(approvals) ==
    IF \E i \in 1..Len(approvals) : ~approvals[i].value
    THEN FirstFalse(approvals)
    ELSE Approval(TRUE, Undefined)

\* checkPermission, from the Approvals of evaluatePermission on
checkPermission(approvals) ==
    IF Len(approvals) = 0 THEN Approval(FALSE, Denial("Approval", Undefined))
    ELSE IF \E i \in 1..Len(approvals) : ~approvals[i].value
    THEN FirstFalse(approvals)
    ELSE Approval(TRUE, Undefined)

\* the recursive call an evaluator makes once its await has completed; for the
\* client that awaits several checks at once, the Approval it gets
Evaluate(ev, x, ctx) ==
    IF x.t = "thrown" THEN Sync(Rejected(x.err), <<>>) ELSE
    CASE ev = "permit" -> evaluatePermit(x, ctx.target)
      [] ev = "privilege" -> evaluatePrivilege(x, ctx.role)
      [] ev = "permission" -> evaluatePermission(x, ctx.privilege, ctx.target)
      [] ev = "concurrent" -> Sync(Done(<<x>>), <<>>)

\* the arguments of the evaluator call that the call n of a checker awaits
CheckCtx(n) == [target |-> n.target, privilege |-> n.privilege,
                role |-> IF n.pc = "privilege" THEN n.roles[n.ri] ELSE Undefined]

\* CheckNextRole, were the privilege kept in a variable that every call of
\* checkPermit assigns, so that it is the privilege of the call made last
CheckNextRoleShared(n, i) ==
    LET r == evaluatePrivilege(args[Len(args)].privilege, n.roles[i])
    IN  Sync([n EXCEPT !.pc = "privilege", !.ri = i, !.tree = r.node], r.calls)

\* the call n of checkPermit goes on to evaluate the privilege with its i-th Role
CheckNextRole(n, i) ==
    LET r == evaluatePrivilege(n.privilege, n.roles[i])
    IN  Sync([n EXCEPT !.pc = "privilege", !.ri = i, !.tree = r.node], r.calls)

\* The call n of a checker, made by a function that the evaluator ev with the
\* arguments ctx invoked, goes on after its await: it evaluates the privilege
\* with its next Role, or it returns an Approval, with which ev goes on.
CheckGoesOn(ev, n, ctx) ==
    LET v == Value(n.tree)
    IN  CASE n.pc = "permit" ->
                IF Len(v) = 0 THEN Evaluate(ev, Approval(TRUE, Undefined), ctx)
                ELSE CheckNextRole([n EXCEPT !.roles = v], 1)
          [] n.pc = "privilege" ->
                LET verdict == checkPermit(v, n.roles[n.ri])
                IN  IF verdict # <<>> THEN Evaluate(ev, verdict[1], ctx)
                    ELSE IF n.ri < Len(n.roles) THEN CheckNextRole(n, n.ri + 1)
                    ELSE Evaluate(ev, Approval(TRUE, Undefined), ctx)
          [] n.pc = "permission" -> Evaluate(ev, checkPermission(v), ctx)

\* the call n, in which the call r takes the place of the one n awaits
Within(n, r) == Sync([n EXCEPT !.tree = r.node], r.calls)

\* MapCalled, were the function to hand on the target it was called with
MapCalledWithTarget(n, m) ==
    Within([n EXCEPT !.stage = "inner", !.target = n.outer],
           IF n.ev = "permit" THEN evaluatePermit(n.x, n.outer)
           ELSE evaluatePermission(n.x, n.privilege, n.outer))

\* the call n of a function made by Permit.map or Permission.map goes on after
\* await mapper(target) with the mapped target m: it calls the evaluator
MapCalled(n, m) ==
    Within([n EXCEPT !.stage = "inner", !.target = m],
           IF n.ev = "permit" THEN evaluatePermit(n.x, m)
           ELSE evaluatePermission(n.x, n.privilege, m))

\* the arguments of the evaluator call that the call n awaits
MapCtx(n) == [target |-> n.target, privilege |-> n.privilege, role |-> Undefined]

RECURSIVE ResumeAt(_, _, _, _)
\* the await at position p of the tree n completes
ResumeAt(ev, n, p, ctx) ==
    IF p = <<>>
    THEN IF n.k = "check" THEN CheckGoesOn(ev, n, ctx)
         ELSE IF n.k = "map" THEN Evaluate(ev, Arr(Value(n.tree)), ctx)
         ELSE Evaluate(ev, n.v, ctx)
    ELSE IF n.k = "map"
    THEN IF n.stage = "mapper" THEN MapCalled(n, n.tree.v)
         ELSE Within(n, ResumeAt(n.ev, n.tree, Tail(p), MapCtx(n)))
    ELSE IF n.k = "check"
    THEN LET r == ResumeAt(n.pc, n.tree, Tail(p), CheckCtx(n))
         IN  Sync([n EXCEPT !.tree = r.node], r.calls)
    ELSE IF n.k = "then"
    THEN LET r == ResumeAt(n.ev, n.tree, Tail(p), n.ctx)
         IN  Sync([n EXCEPT !.tree = r.node], r.calls)
    ELSE LET r == ResumeAt(ev, n.kids[Head(p)], Tail(p), ctx)
         IN  Sync(Deliver([n EXCEPT !.kids[Head(p)] = r.node]), r.calls)

\* createRoleSet(permit, target), up to its first await
createRoleSet(permit, target) ==
    LET r == evaluatePermit(permit, target)
    IN  Sync(Then("createRoleSet", "permit",
                  [target |-> target, privilege |-> Undefined, role |-> Undefined], r.node),
             r.calls)

\* createRoleSets(...permits), up to its first await; its last callback is
\* applied when the call completes
createRoleSets(permits) ==
    LET rs == [i \in 1..Len(permits) |-> createRoleSet(permits[i].subject, permits[i].target)]
    IN  Sync(PromiseAll([i \in 1..Len(rs) |-> rs[i].node]),
             Flat([i \in 1..Len(rs) |-> rs[i].calls]))

(***************************************************************************)
(* The exported operations.  Where the source declares an operation twice  *)
(* with the same body the model has it once; requirePermit and             *)
(* requirePermission differ between their two declarations, and decl says  *)
(* which one is called.                                                    *)
(***************************************************************************)
Op(name, decl) == [name |-> name, decl |-> decl]

PermitOps == <<Op("checkPermit", 1), Op("isPermitted", 1),
               Op("requirePermit", 1), Op("requirePermit", 2),
               Op("checkPermits", 1), Op("arePermitted", 1), Op("requirePermits", 1),
               Op("createRoleSet", 1), Op("createRoleSets", 1)>>

PermissionOps == <<Op("checkPermission", 1), Op("isPermissioned", 1),
                   Op("requirePermission", 1), Op("requirePermission", 2),
                   Op("checkPermissions", 1), Op("arePermissioned", 1),
                   Op("requirePermissions", 1)>>

\* checkConcurrently is Promise.all of the checks of the client's two tuples;
\* checkPermissionOfCreate is checkPermission(Permission.create(permit),
\* privilege, target), called on the tuple that checkPermit was called on
CompareOps == <<Op("checkPermit", 2), Op("checkPermissionOfCreate", 2)>>
ConcurrentOps == <<Op("checkConcurrently", 1)>>

OpOrder == CASE family = "permit" -> PermitOps
             [] family = "permission" -> PermissionOps
             [] family = "compare" -> CompareOps
             [] family \in {"permits at once", "permissions at once"} -> ConcurrentOps

BulkOps == {"checkPermits", "arePermitted", "requirePermits",
            "checkPermissions", "arePermissioned", "requirePermissions"}

RoleSetOps == {"createRoleSet", "createRoleSets"}

\* the outcome of a call: it returns v or it throws v
Return(v) == [k |-> "return", v |-> v]
Throw(v) == [k |-> "throw", v |-> v]

\* the types of error that requirePermit and requirePermission wrap
Primitives == {"string", "boolean", "undefined", "bigint", "number"}

\* isPermitted, were the Approval returned instead of its value
isPermittedApproval(approval) == Return(approval)

\* isPermitted, isPermissioned, arePermitted, arePermissioned: .then(it => it.value)
isPermitted(approval) == Return(Bool(approval.value))

\* requirePermit, were every error wrapped into a Denial
requirePermitWrapsAll(decl, approval, target) ==
    IF ~approval.value
    THEN Throw(Denial("Permit", approval.error))
    ELSE Return(IF decl = 1 THEN Undefined ELSE target)

\* requirePermit, from the Approval of checkPermit on
requirePermit(decl, approval, target) ==
    IF ~approval.value
    THEN IF TypeOf(approval.error) \in Primitives
         THEN Throw(Denial("Permit", approval.error))
         ELSE Throw(approval.error)
    ELSE Return(IF decl = 1 THEN Undefined ELSE target)

\* requirePermission, were every error wrapped into a Denial
requirePermissionWrapsAll(decl, approval, target) ==
    IF ~approval.value
    THEN Throw(Denial(IF decl = 1 THEN "Permit" ELSE "Permission", approval.error))
    ELSE Return(IF decl = 1 THEN Undefined ELSE target)

\* requirePermission, from the Approval of checkPermission on
requirePermission(decl, approval, target) ==
    IF ~approval.value
    THEN IF TypeOf(approval.error) \in Primitives
         THEN Throw(Denial(IF decl = 1 THEN "Permit" ELSE "Permission", approval.error))
         ELSE Throw(approval.error)
    ELSE Return(IF decl = 1 THEN Undefined ELSE target)

\* requirePermits, were primitive errors wrapped as requirePermit wraps them
requirePermitsWrapsPrimitives(approval) ==
    IF ~approval.value
    THEN IF TypeOf(approval.error) \in Primitives
         THEN Throw(Denial("Permit", approval.error))
         ELSE Throw(approval.error)
    ELSE Return(Undefined)

\* requirePermits and requirePermissions, from the Approval of the bulk check on
requirePermits(approval) ==
    IF ~approval.value THEN Throw(approval.error) ELSE Return(Undefined)

\* what the operation o makes of the Approval of its check
Complete(o, approval, target) ==
    CASE o.name \in {"checkPermit", "checkPermission", "checkPermits", "checkPermissions",
                     "checkPermissionOfCreate"} ->
            Return(approval)
      [] o.name \in {"isPermitted", "isPermissioned", "arePermitted", "arePermissioned"} ->
            isPermitted(approval)
      [] o.name = "requirePermit" -> requirePermit(o.decl, approval, target)
      [] o.name = "requirePermission" -> requirePermission(o.decl, approval, target)
      [] o.name \in {"requirePermits", "requirePermissions"} -> requirePermits(approval)

(***************************************************************************)
(* The values the client passes.  The functions of the k-th tuple of a     *)
(* call have the ids 10k+1 .. 10k+9, so that an id names its tuple.        *)
(***************************************************************************)
T == Str("t")
U == Str("u")

\* the array literals of at most n elements of S
ArraysOf(S, n) == {Arr(items) : items \in UNION {[1..m -> S] : m \in 0..n}}

\* Permit<T>: the siblings of an array permit
PermitAtoms(k) ==
    { Str("a"),
      Role(Str("r"), CustomError(1)),
      Pending(Str("b")),
      Fn(10 * k + 1, T, Str("c"), Pending(Str("d"))),
      Pending(Arr(<<Str("e"), Pending(Str("f"))>>)) }

Permits(k) ==
    PermitAtoms(k) \cup ArraysOf(PermitAtoms(k), MaxLen)
    \cup { Role(Str("a"), Str("e")),
           Role(Str("a"), Undefined),
           Fn(10 * k + 2, T, Arr(<<Fn(10 * k + 3, T, Str("a"), Str("b")), Pending(Str("b"))>>), Str("b")),
           Arr(<<Arr(<<>>), Arr(<<Arr(<<>>)>>)>>),
           Num(5),
           Arr(<<Num(5), Pending(Fn(10 * k + 2, T, Str("a"), Str("b")))>>) }

BasicPermits(k) ==
    { Str("a"),
      Str("x"),
      Arr(<<>>),
      Arr(<<Str("a"), Str("b")>>),
      Arr(<<Pending(Str("b")), Fn(10 * k + 1, T, Str("a"), Str("b"))>>) }

\* Privilege: the siblings of an array privilege
PrivilegeAtoms(k) ==
    { Bool(TRUE),
      Bool(FALSE),
      Approval(FALSE, CustomError(2)),
      Pending(Approval(FALSE, Str("e"))),
      Fn(10 * k + 4, Str("a"), Bool(TRUE), Arr(<<>>)),
      Fn(10 * k + 5, Str("a"), Pending(Arr(<<Bool(TRUE), Pending(Bool(TRUE))>>)),
                               Approval(FALSE, Undefined)) }

Privileges(k) ==
    PrivilegeAtoms(k) \cup ArraysOf(PrivilegeAtoms(k), MaxLen)
    \cup { Approval(FALSE, Num(1)),
           Approval(FALSE, BigInt(1)),
           Approval(FALSE, Bool(FALSE)),
           Approval(FALSE, Denial("Permit", Bool(FALSE))),
           Approval(TRUE, Str("e")),
           Undefined,
           Arr(<<Str("x"), Pending(Fn(10 * k + 4, Str("a"), Bool(TRUE), Bool(FALSE)))>>) }

BasicPrivileges(k) ==
    PrivilegeAtoms(k)
    \cup { Arr(<<>>),
           Arr(<<Bool(TRUE), Fn(10 * k + 5, Str("b"), Approval(FALSE, Str("e")), Pending(Bool(TRUE)))>>) }

\* Permission<T>: the siblings of an array permission
PermissionAtoms(k) ==
    { Bool(TRUE),
      Bool(FALSE),
      Approval(FALSE, CustomError(3)),
      Pending(Approval(FALSE, Str("e"))),
      Fn(10 * k + 6, T, Pending(Bool(TRUE)), Approval(FALSE, Undefined)),
      Pending(Arr(<<Bool(TRUE), Pending(Approval(FALSE, Num(1)))>>)) }

Permissions(k) ==
    PermissionAtoms(k) \cup ArraysOf(PermissionAtoms(k), MaxLen)
    \cup { Approval(FALSE, Str("e")),
           Approval(FALSE, Num(1)),
           Approval(FALSE, BigInt(1)),
           Approval(FALSE, Bool(FALSE)),
           Approval(FALSE, Undefined),
           Approval(FALSE, Denial("Permit", Bool(FALSE))),
           Fn(10 * k + 7, T, Arr(<<>>), Bool(TRUE)),
           Str("x"),
           Arr(<<Str("x"), Pending(Fn(10 * k + 6, T, Bool(TRUE), Bool(FALSE)))>>) }

Tuple(subject, privilege, target) == [subject |-> subject, privilege |-> privilege, target |-> target]

\* permits with an object that is not a Role, and privileges to check them with
\* (a literal privilege reads no property of the Role)
ObjectPermitTuples ==
    {Tuple(p, q, T) : p \in {Null, Arr(<<Str("a"), Null>>)}, q \in {Bool(TRUE), Bool(FALSE)}}
    \cup {Tuple(p, q, T) : p \in {EmptyObject, Pending(Arr(<<EmptyObject>>))},
                           q \in {Bool(TRUE), Arr(<<>>),
                                  Fn(14, Str("a"), Bool(TRUE), Approval(FALSE, Str("e")))}}

\* the permission nested in the continuation Roles: a function of the target
NestedPermission == Fn(18, T, Bool(TRUE), Approval(FALSE, Str("n")))

\* permits with a continuation Role, and privileges to check them with: a
\* literal, a function that knows no continuation, and functions that verify
\* the continuations of a type with a target of their own
ContinuationPermitTuples ==
    {Tuple(p, q, T) :
        p \in { RoleContinuation("ctx", NestedPermission, CustomError(4)),
                Arr(<<Str("a"), Pending(RoleContinuation("ctx", NestedPermission, CustomError(4)))>>) },
        q \in { Bool(TRUE),
                Fn(14, Str("a"), Bool(TRUE), Arr(<<>>)),
                Verifier(19, "ctx", Bool(TRUE), T, Bool(TRUE)),
                Verifier(19, "ctx", Bool(TRUE), U, Bool(TRUE)),
                Verifier(19, "other", Bool(TRUE), T, Approval(FALSE, Str("e"))),
                Arr(<<Bool(TRUE), Verifier(19, "ctx", Bool(TRUE), T, Bool(TRUE))>>) }}

\* permissions made by Permission.continuation
ContinuationPermissionTuples ==
    {Tuple(PermissionContinuation("ctx", NestedPermission, CustomError(4)), q, T) :
        q \in { Bool(TRUE),
                Fn(14, Str("a"), Bool(TRUE), Arr(<<>>)),
                Verifier(19, "ctx", Bool(TRUE), T, Bool(TRUE)),
                Verifier(19, "ctx", Bool(TRUE), U, Bool(TRUE)) }}

RECURSIVE Nested(_, _)
\* x inside d array literals
Nested(x, d) == IF d = 0 THEN x ELSE Arr(<<Nested(x, d - 1)>>)

\* permits of nested arrays: a leaf and an empty array at every depth, and one
\* whose leaves lie at different depths, behind pending computations and
\* behind a function
NestedPermits ==
    {Nested(Str("a"), d) : d \in 1..MaxDepth}
    \cup {Nested(Arr(<<>>), d) : d \in 1..MaxDepth}
    \cup { Arr(<<Arr(<<Str("a"), Arr(<<>>),
                       Arr(<<Pending(Role(Str("r"), CustomError(1)))>>)>>),
                 Pending(Arr(<<Arr(<<Fn(11, T, Arr(<<Str("c"), Arr(<<Str("d")>>)>>),
                                        Str("b"))>>)>>)),
                 Arr(<<>>),
                 Str("e")>>) }

NestedPermitTuples == {Tuple(p, Bool(TRUE), T) : p \in NestedPermits}

\* a mapper of targets: it maps T to U, at once or after a while
Mapper(hit) == Fn(10, T, hit, T)

\* permits made by Permit.map, whose functions tell the mapped target U from
\* the target T of the call, and privileges that tell their Roles apart
MappedPermitTuples ==
    {Tuple(p, q, T) :
        p \in { PermitMap(Fn(11, U, Str("a"), Str("b")), Mapper(U)),
                PermitMap(Arr(<<Str("c"),
                                Pending(Fn(11, U, Arr(<<Str("a"), Role(Str("r"), CustomError(1))>>),
                                           Str("b")))>>),
                          Mapper(Pending(U))),
                Arr(<<Str("x"), PermitMap(Fn(11, U, Str("a"), Str("b")), Mapper(U))>>),
                PermitMap(PermitMap(Fn(11, T, Str("a"), Str("b")), Fn(10, U, T, U)), Mapper(U)),
                PermitMap(Num(5), Mapper(U)) },
        q \in { Bool(TRUE),
                Fn(14, Str("b"), Approval(FALSE, Str("e")), Bool(TRUE)) }}

\* permissions made by Permission.map
MappedPermissionTuples ==
    {Tuple(p, Bool(TRUE), T) :
        p \in { PermissionMap(Fn(16, U, Bool(TRUE), Approval(FALSE, Str("e"))), Mapper(U)),
                PermissionMap(Arr(<<Bool(TRUE),
                                    Pending(Fn(16, U, Approval(FALSE, CustomError(3)),
                                               Bool(TRUE)))>>),
                              Mapper(Pending(U))),
                Arr(<<PermissionMap(Fn(16, U, Bool(TRUE), Approval(FALSE, Str("e"))), Mapper(U)),
                      Bool(FALSE)>>),
                PermissionMap(Str("x"), Mapper(U)) }}

\* the tuples on which the client compares checkPermit with checkPermission of
\* Permission.create
ComparedTuples ==
    {Tuple(p, q, T) :
        p \in { Str("a"),
                Arr(<<>>),
                Arr(<<Pending(Str("b")), Fn(11, T, Str("a"), Str("b"))>>),
                Arr(<<Pending(Fn(11, T, Str("a"), Str("b"))),
                      Pending(Fn(13, T, Str("b"), Str("a")))>>),
                Fn(12, T, Arr(<<Fn(13, T, Str("a"), Str("b")), Pending(Str("b"))>>), Str("b")),
                Num(5) },
        q \in { Bool(TRUE),
                Approval(FALSE, CustomError(2)),
                Fn(14, Str("a"), Bool(TRUE), Arr(<<>>)),
                Arr(<<Bool(TRUE),
                      Fn(15, Str("b"), Approval(FALSE, Str("e")), Pending(Bool(TRUE)))>>),
                Undefined }}

\* single checks in which two computations fail: the one that fails first
\* is the function that throws when it is called
RacingPermitTuples ==
    {Tuple(Arr(<<Pending(Thrown(CustomError(1))),
                 Fn(12, T, Thrown(CustomError(2)), Thrown(CustomError(2)))>>), Bool(TRUE), T),
     Tuple(Str("a"),
           Arr(<<Pending(Thrown(CustomError(1))),
                 Fn(15, Str("a"), Thrown(CustomError(2)), Bool(TRUE))>>), T)}

RacingPermissionTuples ==
    {Tuple(Arr(<<Pending(Thrown(CustomError(1))),
                 Fn(17, T, Thrown(CustomError(2)), Thrown(CustomError(2)))>>), Bool(TRUE), T)}

\* the tuples a single check is called with
PermitTuples ==
    {Tuple(p, q, T) : p \in Permits(1), q \in BasicPrivileges(1)}
    \cup {Tuple(p, q, T) : p \in BasicPermits(1), q \in Privileges(1)}
    \cup ObjectPermitTuples
    \cup ContinuationPermitTuples
    \cup NestedPermitTuples
    \cup MappedPermitTuples
    \cup RacingPermitTuples

PermissionTuples ==
    {Tuple(p, Bool(TRUE), T) : p \in Permissions(1)} \cup ContinuationPermissionTuples
    \cup MappedPermissionTuples
    \cup RacingPermissionTuples

\* the k-th tuple of a bulk check
BulkPermitTuples(k) ==
    {Tuple(p, q, IF k = 2 THEN U ELSE T) :
        p \in { Str("a"),
                Fn(10 * k + 1, T, Str("a"), Pending(Str("b"))),
                Arr(<<Pending(Str("b")), Fn(10 * k + 2, T, Str("a"), Str("b"))>>) },
        q \in { Bool(TRUE),
                Approval(FALSE, Str("e")),
                Fn(10 * k + 4, Str("a"), Bool(TRUE), Pending(Approval(FALSE, Undefined))),
                Arr(<<Fn(10 * k + 5, Str("a"), Pending(Bool(TRUE)), Arr(<<>>))>>) }}

BulkPermissionTuples(k) ==
    {Tuple(p, Bool(TRUE), IF k = 2 THEN U ELSE T) :
        p \in { Bool(TRUE),
                Approval(FALSE, Str("e")),
                Approval(FALSE, CustomError(3)),
                Fn(10 * k + 6, T, Pending(Bool(TRUE)), Approval(FALSE, Undefined)),
                Arr(<<Pending(Bool(TRUE)), Fn(10 * k + 7, T, Bool(TRUE), Arr(<<>>))>>),
                Arr(<<>>) }}

\* the k-th tuple of a bulk check of which a function throws or a pending
\* computation rejects: the permit function throws; the pending permit
\* rejects; a pending privilege rejects beside a false sibling; the privilege
\* function throws for the Role b, after it approved or denied the Role a
FailingPermitTuples(k) ==
    {Tuple(Fn(10 * k + 1, T, Thrown(CustomError(10 * k)), Thrown(CustomError(10 * k))),
           Bool(TRUE), IF k = 2 THEN U ELSE T),
     Tuple(Pending(Thrown(Str("p"))), Bool(FALSE), IF k = 2 THEN U ELSE T),
     Tuple(Arr(<<Str("a"), Str("b")>>),
           Arr(<<Bool(FALSE), Pending(Thrown(CustomError(10 * k + 4)))>>),
           IF k = 2 THEN U ELSE T),
     Tuple(Arr(<<Str("a"), Str("b")>>),
           Fn(10 * k + 4, Str("b"), Thrown(CustomError(10 * k + 4)), Bool(TRUE)),
           IF k = 2 THEN U ELSE T),
     Tuple(Arr(<<Str("a"), Str("b")>>),
           Fn(10 * k + 5, Str("b"), Thrown(CustomError(10 * k + 5)), Approval(FALSE, Str("e"))),
           IF k = 2 THEN U ELSE T),
     Tuple(Str("a"), Bool(TRUE), IF k = 2 THEN U ELSE T),
     Tuple(Str("a"), Approval(FALSE, Str("e")), IF k = 2 THEN U ELSE T)}

FailingPermissionTuples(k) ==
    {Tuple(p, Bool(TRUE), IF k = 2 THEN U ELSE T) :
        p \in { Fn(10 * k + 6, T, Thrown(CustomError(10 * k)), Thrown(CustomError(10 * k))),
                Pending(Thrown(Str("p"))),
                Arr(<<Bool(FALSE),
                      Fn(10 * k + 7, T, Pending(Thrown(CustomError(10 * k + 7))),
                         Pending(Thrown(CustomError(10 * k + 7))))>>),
                Bool(TRUE),
                Approval(FALSE, Str("e")) }}

\* the tuples of the k-th of the checks that a client runs at once
ConcurrentPermitTuples(k) ==
    {a \in BulkPermitTuples(k) : a.subject.t # "string" /\ a.privilege.t # "Approval"}

ConcurrentPermissionTuples(k) ==
    {a \in BulkPermissionTuples(k) : a.subject.t \in {"Approval", "function", "array"}}

\* the tuple lists of at most Len(B) tuples whose k-th tuple is in B[k]
Lists(B) ==
    UNION {{l \in [1..m -> UNION {B[k] : k \in 1..m}] : \A k \in 1..m : l[k] \in B[k]} :
           m \in 0..Len(B)}

Init ==
    /\ family \in {"permit", "permission", "compare", "permits at once", "permissions at once"}
    /\ args \in CASE family = "permit" ->
                        {<<a>> : a \in PermitTuples}
                        \cup Lists([k \in 1..MaxTuples |-> BulkPermitTuples(k)])
                        \cup Lists([k \in 1..MaxTuples |-> FailingPermitTuples(k)])
                  [] family = "permission" ->
                        {<<a>> : a \in PermissionTuples}
                        \cup Lists([k \in 1..MaxTuples |-> BulkPermissionTuples(k)])
                        \cup Lists([k \in 1..MaxTuples |-> FailingPermissionTuples(k)])
                  [] family = "compare" -> {<<a>> : a \in ComparedTuples}
                  [] family = "permits at once" ->
                        {<<a, b>> : a \in ConcurrentPermitTuples(1), b \in ConcurrentPermitTuples(2)}
                  [] family = "permissions at once" ->
                        {<<a, b>> : a \in ConcurrentPermissionTuples(1),
                                    b \in ConcurrentPermissionTuples(2)}
    /\ cur = 0
    /\ busy = FALSE
    /\ idx = 1
    /\ pc = "idle"
    /\ tree = Done(<<>>)
    /\ resumed = <<>>
    /\ roles = <<>>
    /\ ri = 0
    /\ ret = Approval(TRUE, Undefined)
    /\ calls = [c \in 1..Len(PermitOps) |-> <<>>]
    /\ sched = [c \in 1..Len(PermitOps) |-> <<>>]
    /\ trace = <<>>
    /\ results = <<>>

(***************************************************************************)
(* Steps.                                                                  *)
(***************************************************************************)
\* the arguments of the evaluator call whose tree is being awaited
Ctx == [target |-> args[idx].target, privilege |-> args[idx].privilege,
        role |-> IF pc = "privilege" THEN roles[ri] ELSE Undefined]

Logged(c, ids) == [calls EXCEPT ![c] = @ \o ids]

\* tr followed by the invocations ids made by the evaluator ev called for
\* tuple i and Role r
Traced(tr, ids, i, ev, r) ==
    tr \o [j \in 1..Len(ids) |-> [id |-> ids[j], idx |-> i, ev |-> ev, ri |-> r]]

\* the operation OpOrder[c] settles with the outcome out
Finish(c, out) ==
    /\ results' = Append(results, [op |-> OpOrder[c].name, decl |-> OpOrder[c].decl, out |-> out])
    /\ busy' = FALSE

\* the checker of an operation, and the permit or permission it is given for
\* tuple i
OfCreate(c) == OpOrder[c].name = "checkPermissionOfCreate"
Checker(c) == IF OfCreate(c) \/ family \in {"permission", "permissions at once"}
              THEN "permission" ELSE "permit"
Subject(c, i) == IF OfCreate(c) THEN PermissionCreate(args[i].subject) ELSE args[i].subject

\* where the client compares two operations: the position in checkPermit's
\* promise tree of the await at position p of the tree of operation c
Scheduled(c, p) ==
    IF family # "compare" THEN <<>>
    ELSE IF ~OfCreate(c) THEN <<p>>
    ELSE IF p = <<>> THEN <<>> ELSE <<Tail(p)>>

\* checkPermit / checkPermission is called on tuple i and runs to its first await
StartCheck(c, i) ==
    LET a == args[i]
        r == IF Checker(c) = "permit" THEN evaluatePermit(Subject(c, i), a.target)
             ELSE evaluatePermission(Subject(c, i), a.privilege, a.target)
    IN  /\ idx' = i
        /\ pc' = Checker(c)
        /\ tree' = r.node
        /\ resumed' = <<>>
        /\ calls' = Logged(c, r.calls)
        /\ trace' = Traced(IF i = 1 THEN <<>> ELSE trace, r.calls, i, Checker(c), 0)
        /\ roles' = <<>>
        /\ ri' = 0

\* the operations the client may call on its arguments
Applicable(o) ==
    IF o.name \in BulkOps \cup {"createRoleSets"} THEN TRUE
    ELSE IF o.name = "checkConcurrently" THEN TRUE
    ELSE Len(args) = 1

\* the client calls its checker on each of its tuples without awaiting any of
\* the calls, and awaits them all
StartConcurrent(c) ==
    LET rs == [i \in 1..Len(args) |->
                  IF Checker(c) = "permit"
                  THEN checkPermitCall(args[i].subject, args[i].privilege, args[i].target)
                  ELSE checkPermissionCall(args[i].subject, args[i].privilege, args[i].target)]
        ids == Flat([i \in 1..Len(rs) |-> rs[i].calls])
    IN  /\ idx' = 1
        /\ pc' = "concurrent"
        /\ tree' = PromiseAll([i \in 1..Len(rs) |-> rs[i].node])
        /\ resumed' = <<>>
        /\ calls' = Logged(c, ids)
        /\ trace' = Traced(<<>>, ids, 0, "concurrent", 0)
        /\ roles' = <<>>
        /\ ri' = 0

\* createRoleSet / createRoleSets is called and runs to its first await
StartRoleSet(c) ==
    LET r == IF OpOrder[c].name = "createRoleSet"
             THEN createRoleSet(args[1].subject, args[1].target)
             ELSE createRoleSets(args)
    IN  /\ idx' = 1
        /\ pc' = "roleset"
        /\ tree' = r.node
        /\ resumed' = <<>>
        /\ calls' = Logged(c, r.calls)
        /\ trace' = Traced(<<>>, r.calls, 0, "roleset", 0)
        /\ roles' = <<>>
        /\ ri' = 0

\* The client calls its next operation, which runs to its first await.
Call ==
    /\ ~busy
    /\ PendingPaths(tree) = {}
    /\ \E c \in cur + 1..Len(OpOrder) :
        /\ Applicable(OpOrder[c])
        /\ \A b \in cur + 1..c - 1 : ~Applicable(OpOrder[b])
        /\ cur' = c
        /\ IF OpOrder[c].name \in RoleSetOps
           THEN /\ StartRoleSet(c)
                /\ busy' = TRUE
                /\ UNCHANGED results
           ELSE IF OpOrder[c].name = "checkConcurrently"
           THEN /\ StartConcurrent(c)
                /\ busy' = TRUE
                /\ UNCHANGED results
           ELSE IF Len(args) = 0
           THEN /\ Finish(c, Complete(OpOrder[c], Approval(TRUE, Undefined), Undefined))
                /\ trace' = <<>>
                /\ UNCHANGED <<idx, pc, tree, resumed, roles, ri, calls>>
           ELSE /\ StartCheck(c, 1)
                /\ busy' = TRUE
                /\ UNCHANGED results
    /\ UNCHANGED <<args, family, ret, sched>>

\* A suspended await of the tree completes and its evaluator goes on.
Resume ==
    /\ \E p \in PendingPaths(tree) :
        LET r == ResumeAt(pc, tree, p, Ctx)
        IN  /\ tree' = r.node
            /\ resumed' = Append(resumed, p)
            /\ calls' = Logged(cur, r.calls)
            /\ trace' = Traced(trace, r.calls, idx, pc, ri)
            /\ sched' = [sched EXCEPT ![cur] = @ \o Scheduled(cur, p)]
    /\ UNCHANGED <<args, family, cur, busy, idx, pc, roles, ri, ret, results>>

\* CheckRole, were checkPermit to verify a continuation Role itself, checking
\* the nested permission with the privilege and the target of the call
CheckRoleRunsContinuation(rs, i) ==
    LET r == IF rs[i].t = "Role" /\ rs[i].value.t = "Continuation"
             THEN checkPermissionCall(rs[i].value.permission, args[idx].privilege,
                                      args[idx].target)
             ELSE evaluatePrivilege(args[idx].privilege, rs[i])
    IN  /\ ri' = i
        /\ pc' = "privilege"
        /\ tree' = r.node
        /\ resumed' = <<>>
        /\ calls' = Logged(cur, r.calls)
        /\ trace' = Traced(trace, r.calls, idx, "privilege", i)
        /\ UNCHANGED ret

\* checkPermit: the privilege is evaluated with the i-th of the Roles rs
CheckRole(rs, i) ==
    LET r == evaluatePrivilege(args[idx].privilege, rs[i])
    IN  /\ ri' = i
        /\ pc' = "privilege"
        /\ tree' = r.node
        /\ resumed' = <<>>
        /\ calls' = Logged(cur, r.calls)
        /\ trace' = Traced(trace, r.calls, idx, "privilege", i)
        /\ UNCHANGED ret

\* the checker returns approval to the operation that called it
CheckReturns(approval) ==
    /\ ret' = approval
    /\ pc' = "returned"
    /\ UNCHANGED <<tree, resumed, calls, trace>>

\* PermitEvaluated, were checkPermit to go on with the Roles of the first
\* sibling of an array permit as soon as that sibling has been evaluated
PermitEvaluatedFirstSibling ==
    /\ busy /\ pc = "permit" /\ ~IsRejected(tree)
    /\ IsFulfilled(tree) \/ (tree.k = "all" /\ 1 \in tree.seen)
    /\ roles' = IF IsFulfilled(tree) THEN Value(tree) ELSE tree.values[1]
    /\ IF Len(roles') = 0
       THEN CheckReturns(Approval(TRUE, Undefined)) /\ UNCHANGED ri
       ELSE CheckRole(roles', 1)
    /\ UNCHANGED <<args, family, cur, busy, idx, results, sched>>

\* PermitEvaluated, were a permit without Roles denied as a permission without
\* Approvals is
PermitEvaluatedDeniesEmpty ==
    /\ busy /\ pc = "permit" /\ IsFulfilled(tree)
    /\ roles' = Value(tree)
    /\ IF Len(roles') = 0
       THEN CheckReturns(Approval(FALSE, Denial("Approval", Undefined))) /\ UNCHANGED ri
       ELSE CheckRole(roles', 1)
    /\ UNCHANGED <<args, family, cur, busy, idx, results, sched>>

\* checkPermit: await evaluatePermit(permit, target) completes
PermitEvaluated ==
    /\ busy /\ pc = "permit" /\ IsFulfilled(tree)
    /\ roles' = Value(tree)
    /\ IF Len(roles') = 0
       THEN CheckReturns(Approval(TRUE, Undefined)) /\ UNCHANGED ri
       ELSE CheckRole(roles', 1)
    /\ UNCHANGED <<args, family, cur, busy, idx, results, sched>>

\* checkPermit: await evaluatePrivilege(privilege, role) completes
PrivilegeEvaluated ==
    /\ busy /\ pc = "privilege" /\ IsFulfilled(tree)
    /\ LET verdict == checkPermit(Value(tree), roles[ri])
       IN  IF verdict # <<>>
           THEN CheckReturns(verdict[1]) /\ UNCHANGED ri
           ELSE IF ri < Len(roles)
           THEN CheckRole(roles, ri + 1)
           ELSE CheckReturns(Approval(TRUE, Undefined)) /\ UNCHANGED ri
    /\ UNCHANGED <<args, family, cur, busy, idx, roles, results, sched>>

\* checkPermission: await evaluatePermission(permission, privilege, target) completes
PermissionEvaluated ==
    /\ busy /\ pc = "permission" /\ IsFulfilled(tree)
    /\ CheckReturns(checkPermission(Value(tree)))
    /\ UNCHANGED <<args, family, cur, busy, idx, roles, ri, results, sched>>

\* The evaluator call being awaited rejects: the checker and the operation
\* that awaits it reject with the same reason.
EvaluationFailed ==
    /\ busy /\ pc \in {"permit", "privilege", "permission", "roleset", "concurrent"}
    /\ IsRejected(tree)
    /\ Finish(cur, Throw(Reason(tree)))
    /\ UNCHANGED <<args, family, cur, idx, pc, tree, resumed, roles, ri, ret, calls, trace, sched>>

\* createRoleSet / createRoleSets: the promise of the operation fulfils
RoleSetCreated ==
    /\ busy /\ pc = "roleset" /\ IsFulfilled(tree)
    /\ Finish(cur, Return(Arr(IF OpOrder[cur].name = "createRoleSet"
                              THEN Value(tree) ELSE Dedupe(Value(tree)))))
    /\ pc' = "idle"
    /\ UNCHANGED <<args, family, cur, idx, tree, resumed, roles, ri, ret, calls, trace, sched>>

\* the checks that the client awaits at once have all returned
ConcurrentChecked ==
    /\ busy /\ pc = "concurrent" /\ IsFulfilled(tree)
    /\ Finish(cur, Return(Arr(Value(tree))))
    /\ pc' = "idle"
    /\ UNCHANGED <<args, family, cur, idx, tree, resumed, roles, ri, ret, calls, trace, sched>>

\* checkPermits, were the loop not to stop at a false Approval
checkPermitsAll(approval, i, n) == i < n

\* checkPermits / checkPermissions: the loop over the tuples goes on after the
\* i-th of n tuples was checked with approval
checkPermits(approval, i, n) == approval.value /\ i < n

\* The operation goes on with the Approval its checker returned: a bulk check
\* stops at a false Approval and otherwise moves to the next tuple.
CheckReturned ==
    /\ busy /\ pc = "returned"
    /\ IF OpOrder[cur].name \in BulkOps /\ checkPermits(ret, idx, Len(args))
       THEN /\ StartCheck(cur, idx + 1)
            /\ UNCHANGED <<busy, results>>
       ELSE /\ Finish(cur, Complete(OpOrder[cur],
                                    IF OpOrder[cur].name \in BulkOps /\ ret.value
                                    THEN Approval(TRUE, Undefined) ELSE ret,
                                    args[idx].target))
            /\ pc' = "idle"
            /\ UNCHANGED <<idx, tree, resumed, roles, ri, calls, trace>>
    /\ UNCHANGED <<args, family, cur, ret, sched>>

Next ==
    \/ Call
    \/ Resume
    \/ PermitEvaluated
    \/ PrivilegeEvaluated
    \/ PermissionEvaluated
    \/ EvaluationFailed
    \/ CheckReturned
    \/ RoleSetCreated
    \/ ConcurrentChecked

Spec == Init /\ [][Next]_vars

TypeOK ==
    /\ busy \in BOOLEAN
    /\ cur \in 0..Len(OpOrder)
    /\ Len(results) <= cur

(***************************************************************************)
(* What the specification says an evaluation yields, as functions of the   *)
(* value alone (sections 4.1 to 4.3): the leaves of the value from left to *)
(* right, with pending computations and functions replaced by their        *)
(* results.                                                                *)
(***************************************************************************)
RECURSIVE RolesOf(_, _)
RolesOf(permit, target) ==
    CASE permit.t = "promise" -> RolesOf(permit.v, target)
      [] permit.t = "array" ->
            Flat([i \in 1..Len(permit.items) |-> RolesOf(permit.items[i], target)])
      [] permit.t = "function" -> RolesOf(Invoke(permit, target), target)
      [] permit.t = "mapped" -> RolesOf(permit.inner, Awaited(Invoke(permit.mapper, target)))
      [] permit.t = "string" -> <<Role(permit, Denial("Permit", permit))>>
      [] OTHER -> <<permit>>

\* the privilege function x verifies the continuation a
Verifies(x, a) == x.t = "verifier" /\ a.t = "Continuation" /\ a.type = x.type

RECURSIVE ApprovalsOf(_, _, _)
RECURSIVE PermissionVerdict(_, _)
RECURSIVE PermitVerdict(_, _, _)
RECURSIVE PermitOK(_, _, _)
\* cause is "Privilege" and a the value of the Role, or "Permission" and the target;
\* a permission made by Permission.create or Permission.continuation is the
\* permission of a single check, which checks its permit with the privilege
\* of that check
ApprovalsOf(x, cause, a) ==
    CASE x.t = "promise" -> ApprovalsOf(x.v, cause, a)
      [] x.t = "array" -> Flat([i \in 1..Len(x.items) |-> ApprovalsOf(x.items[i], cause, a)])
      [] x.t = "function" -> ApprovalsOf(Invoke(x, a), cause, a)
      [] x.t = "mapped" -> ApprovalsOf(x.inner, cause, Awaited(Invoke(x.mapper, a)))
      [] x.t = "verifier" -> IF Verifies(x, a) THEN <<PermissionVerdict(a.permission, x.target)>>
                             ELSE ApprovalsOf(x.miss, cause, a)
      [] x.t = "closure" -> <<PermitVerdict(x.permit, args[1].privilege, a)>>
      [] x.t = "boolean" -> <<Approval(x.b, Denial(cause, x))>>
      [] OTHER -> <<x>>

\* what section 4.5 says the check of a permission that is no adapter returns
PermissionVerdict(permission, target) ==
    LET as == ApprovalsOf(permission, "Permission", target)
    IN  IF as = <<>> THEN Approval(FALSE, Denial("Approval", Undefined))
        ELSE IF \E i \in 1..Len(as) : ~as[i].value
        THEN as[CHOOSE i \in 1..Len(as) : ~as[i].value /\ \A j \in 1..(i - 1) : as[j].value]
        ELSE Approval(TRUE, Undefined)

RECURSIVE WellTyped(_, _, _)
\* x is in the union whose literals have the tags in lits, its functions being
\* called with a
WellTyped(x, lits, a) ==
    CASE x.t = "promise" -> WellTyped(x.v, lits, a)
      [] x.t = "array" -> \A i \in 1..Len(x.items) : WellTyped(x.items[i], lits, a)
      [] x.t = "function" -> WellTyped(Invoke(x, a), lits, a)
      [] x.t = "mapped" -> WellTyped(x.inner, lits, Awaited(Invoke(x.mapper, a)))
      [] x.t = "verifier" ->
            IF Verifies(x, a) THEN WellTyped(a.permission, {"boolean", "Approval"}, x.target)
            ELSE WellTyped(x.miss, lits, a)
      [] x.t = "closure" -> PermitOK(x.permit, args[1].privilege, a)
      [] OTHER -> x.t \in lits

Min(S) == CHOOSE i \in S : \A j \in S : i <= j

\* the indices of the false Approvals of a sequence
Falses(approvals) == {i \in 1..Len(approvals) : ~approvals[i].value}

\* the Roles of rs that the privilege denies: no Approval at all, or a false one
DeniedRoles(privilege, rs) ==
    {i \in 1..Len(rs) :
        /\ WellTyped(privilege, {"boolean", "Approval"}, rs[i].value)
        /\ LET as == ApprovalsOf(privilege, "Privilege", rs[i].value)
           IN  as = <<>> \/ Falses(as) # {}}

\* what section 4.4 says the check of a permit returns
PermitVerdict(permit, privilege, target) ==
    LET rs == RolesOf(permit, target)
        D == DeniedRoles(privilege, rs)
    IN  IF D = {} THEN Approval(TRUE, Undefined)
        ELSE LET as == ApprovalsOf(privilege, "Privilege", rs[Min(D)].value)
             IN  IF as = <<>> THEN Approval(FALSE, rs[Min(D)].error)
                 ELSE as[Min(Falses(as))]

\* the tuple a evaluates without an invalid type error
PermitOK(permit, privilege, target) ==
    /\ WellTyped(permit, {"string", "Role"}, target)
    /\ LET rs == RolesOf(permit, target)
           D == DeniedRoles(privilege, rs)
       IN  \A i \in 1..Len(rs) :
              (D = {} \/ i <= Min(D)) => WellTyped(privilege, {"boolean", "Approval"}, rs[i].value)

PermitTupleOK(a) == PermitOK(a.subject, a.privilege, a.target)

PermissionTupleOK(a) == WellTyped(a.subject, {"boolean", "Approval"}, a.target)

\* the operation name of declaration decl has completed; its outcome
HasOut(name, decl) == \E i \in 1..Len(results) : results[i].op = name /\ results[i].decl = decl
Out(name, decl) ==
    results[CHOOSE i \in 1..Len(results) : results[i].op = name /\ results[i].decl = decl].out

\* the client made a single check of a permit / of a permission
SinglePermit == family = "permit" /\ Len(args) = 1
SinglePermission == family = "permission" /\ Len(args) = 1

(***************************************************************************)
(* C1: checkPermit returns the first false Approval, scanning the Roles in *)
(* order and the Approvals of each Role in order; it returns {value: true} *)
(* when every Role has Approvals and none of them is false.                *)
(***************************************************************************)
C1_FirstFalseApproval ==
    (SinglePermit /\ HasOut("checkPermit", 1) /\ PermitTupleOK(args[1])) =>
        LET rs == RolesOf(args[1].subject, args[1].target)
            D == DeniedRoles(args[1].privilege, rs)
        IN  IF D = {}
            THEN Out("checkPermit", 1) = Return(Approval(TRUE, Undefined))
            ELSE LET as == ApprovalsOf(args[1].privilege, "Privilege", rs[Min(D)].value)
                 IN  as # <<>> => Out("checkPermit", 1) = Return(as[Min(Falses(as))])

\* the second Role is the first denied one, by the second of its Approvals
C1_Witness ==
    /\ SinglePermit /\ HasOut("checkPermit", 1) /\ PermitTupleOK(args[1])
    /\ LET rs == RolesOf(args[1].subject, args[1].target)
           D == DeniedRoles(args[1].privilege, rs)
       IN  /\ D # {} /\ Min(D) = 2
           /\ LET as == ApprovalsOf(args[1].privilege, "Privilege", rs[2].value)
              IN  /\ Len(as) >= 2
                  /\ Min(Falses(as)) = 2
                  /\ Out("checkPermit", 1) = Return(as[2])

(***************************************************************************)
(* C2: when the privilege evaluates to no Approval at all for a Role, and  *)
(* no earlier Role was denied, checkPermit returns {value: false, error:   *)
(* role.error}, the error of that Role (Denial('Permit', s) for the Role   *)
(* of the string s).                                                       *)
(***************************************************************************)
C2_ImplicitDenial ==
    (SinglePermit /\ HasOut("checkPermit", 1) /\ PermitTupleOK(args[1])) =>
        LET rs == RolesOf(args[1].subject, args[1].target)
            D == DeniedRoles(args[1].privilege, rs)
        IN  (D # {} /\ ApprovalsOf(args[1].privilege, "Privilege", rs[Min(D)].value) = <<>>) =>
                Out("checkPermit", 1) = Return(Approval(FALSE, rs[Min(D)].error))

C2_Witness ==
    /\ SinglePermit /\ HasOut("checkPermit", 1)
    /\ args[1].subject = Arr(<<Str("a"), Str("b")>>)
    /\ ApprovalsOf(args[1].privilege, "Privilege", Str("a")) # <<>>
    /\ ApprovalsOf(args[1].privilege, "Privilege", Str("b")) = <<>>
    /\ Out("checkPermit", 1) = Return(Approval(FALSE, Denial("Permit", Str("b"))))

(***************************************************************************)
(* C3: checkPermission returns {value: false, error: Denial('Approval')}   *)
(* when the permission evaluates to no Approval, else the first false      *)
(* Approval in sequence order, else {value: true}.                         *)
(***************************************************************************)
C3_CheckPermission ==
    (SinglePermission /\ HasOut("checkPermission", 1) /\ PermissionTupleOK(args[1])) =>
        LET as == ApprovalsOf(args[1].subject, "Permission", args[1].target)
        IN  Out("checkPermission", 1) =
                Return(IF as = <<>> THEN Approval(FALSE, Denial("Approval", Undefined))
                       ELSE IF Falses(as) # {} THEN as[Min(Falses(as))]
                       ELSE Approval(TRUE, Undefined))

C3_Witness ==
    /\ SinglePermission /\ HasOut("checkPermission", 1) /\ PermissionTupleOK(args[1])
    /\ LET as == ApprovalsOf(args[1].subject, "Permission", args[1].target)
       IN  /\ Cardinality(Falses(as)) = 2
           /\ as[Min(Falses(as))] # as[Len(as)]
           /\ Out("checkPermission", 1) = Return(as[Min(Falses(as))])

(***************************************************************************)
(* C4: the output of an array Permit, Privilege or Permission is the       *)
(* concatenation of the outputs of its siblings in sibling order, in       *)
(* whatever order the pending computations of the siblings complete.       *)
(***************************************************************************)
\* the value the evaluator call of tree was given
Evaluated == IF pc = "privilege" THEN args[idx].privilege ELSE Subject(cur, idx)

\* what section 4 says the evaluator named by pc yields for x
OutputOf(x) ==
    CASE pc = "permit" -> RolesOf(x, args[idx].target)
      [] pc = "privilege" -> ApprovalsOf(x, "Privilege", roles[ri].value)
      [] pc = "permission" -> ApprovalsOf(x, "Permission", args[idx].target)

C4_ArrayOutputInSiblingOrder ==
    (pc \in {"permit", "privilege", "permission"} /\ IsFulfilled(tree) /\ Evaluated.t = "array") =>
        Value(tree) = Flat([i \in 1..Len(Evaluated.items) |-> OutputOf(Evaluated.items[i])])

\* the second sibling completed before the first, and their outputs differ
C4_Witness ==
    /\ pc = "permit" /\ IsFulfilled(tree) /\ Evaluated.t = "array"
    /\ Len(Evaluated.items) = 2
    /\ Len(resumed) >= 2
    /\ resumed[1][1] = 2
    /\ resumed[Len(resumed)][1] = 1
    /\ OutputOf(Evaluated.items[1]) # OutputOf(Evaluated.items[2])
    /\ Value(tree) = OutputOf(Evaluated.items[1]) \o OutputOf(Evaluated.items[2])

(***************************************************************************)
(* C5: a bulk check takes its tuples one after the other in list order and *)
(* returns the Approval of the first tuple that fails; no function of a    *)
(* later tuple is ever invoked; without a failing tuple (the empty list    *)
(* included) it returns {value: true}.                                     *)
(***************************************************************************)
\* the session checks permits
OfPermits == family \in {"permit", "permits at once"}

\* what sections 4.4 and 4.5 say the check of the tuple a returns
Verdict(a) ==
    IF OfPermits THEN PermitVerdict(a.subject, a.privilege, a.target)
    ELSE PermissionVerdict(a.subject, a.target)

TupleOK(a) == IF OfPermits THEN PermitTupleOK(a) ELSE PermissionTupleOK(a)
ArgsOK == \A k \in 1..Len(args) : TupleOK(args[k])

\* the tuples that fail their check
Failing == {k \in 1..Len(args) : ~Verdict(args[k]).value}

\* the tuple whose values the function id belongs to
TupleOf(id) == id \div 10

BulkCheck == IF family = "permit" THEN "checkPermits" ELSE "checkPermissions"

C5_BulkShortCircuit ==
    ((\E c \in 1..cur : OpOrder[c].name \in BulkOps) /\ ArgsOK) =>
        LET failing == Failing
            first == IF failing = {} THEN 0 ELSE Min(failing)
        IN  /\ \A c \in 1..cur :
                OpOrder[c].name \in BulkOps =>
                    /\ \A j \in 1..Len(calls[c]) :
                          failing # {} => TupleOf(calls[c][j]) <= first
                    /\ \A j, l \in 1..Len(calls[c]) :
                          j < l => TupleOf(calls[c][j]) <= TupleOf(calls[c][l])
            /\ HasOut(BulkCheck, 1) =>
                  Out(BulkCheck, 1) = Return(IF failing = {} THEN Approval(TRUE, Undefined)
                                             ELSE Verdict(args[first]))

\* the first of two tuples failed and the subject of the second is a function
C5_Witness ==
    /\ Len(args) = 2 /\ ArgsOK
    /\ HasOut(BulkCheck, 1)
    /\ Min(Failing) = 1
    /\ args[2].subject.t = "function"
    /\ Out(BulkCheck, 1) = Return(Verdict(args[1]))
    /\ \A j \in 1..Len(calls[cur]) : TupleOf(calls[cur][j]) = 1

\* the operations of the family the client uses
CheckOp == IF family = "permit" THEN "checkPermit" ELSE "checkPermission"
IsOp == IF family = "permit" THEN "isPermitted" ELSE "isPermissioned"
RequireOp == IF family = "permit" THEN "requirePermit" ELSE "requirePermission"
AreOp == IF family = "permit" THEN "arePermitted" ELSE "arePermissioned"
BulkRequire == IF family = "permit" THEN "requirePermits" ELSE "requirePermissions"

\* the check named name returned an Approval whose value is false
Failed(name) == HasOut(name, 1) /\ Out(name, 1).k = "return" /\ ~Out(name, 1).v.value

(***************************************************************************)
(* C6, as claimed: requirePermit('x', false, t) throws a Denial whose      *)
(* cause is 'Permit' and whose value is false.                             *)
(***************************************************************************)
C6_ThrowsPermitDenial ==
    (SinglePermit /\ args[1].subject = Str("x") /\ args[1].privilege = Bool(FALSE)) =>
        \A d \in {1, 2} :
            HasOut("requirePermit", d) =>
                Out("requirePermit", d) = Throw(Denial("Permit", Bool(FALSE)))

(***************************************************************************)
(* C6, amended: requirePermit('x', false, t) throws the Denial of the      *)
(* Privilege evaluator, whose cause is 'Privilege' and whose value is      *)
(* false.                                                                  *)
(***************************************************************************)
C6_ThrowsPrivilegeDenial ==
    (SinglePermit /\ args[1].subject = Str("x") /\ args[1].privilege = Bool(FALSE)) =>
        \A d \in {1, 2} :
            HasOut("requirePermit", d) =>
                Out("requirePermit", d) = Throw(Denial("Privilege", Bool(FALSE)))

C6_Witness ==
    /\ SinglePermit /\ args[1].subject = Str("x") /\ args[1].privilege = Bool(FALSE)
    /\ HasOut("requirePermit", 1) /\ HasOut("requirePermit", 2)
    /\ Out("requirePermit", 2).k = "throw"

(***************************************************************************)
(* C7: when the error of the failing Approval is a primitive or absent,    *)
(* requirePermit throws a new Denial('Permit', error) and requirePermission*)
(* throws a new Denial('Permission', error).                               *)
(***************************************************************************)
C7_PrimitiveErrorWrapped ==
    (Len(args) = 1 /\ Failed(CheckOp) /\ TypeOf(Out(CheckOp, 1).v.error) \in Primitives) =>
        \A d \in {1, 2} :
            HasOut(RequireOp, d) =>
                Out(RequireOp, d) =
                    Throw(Denial(IF family = "permit" THEN "Permit" ELSE "Permission",
                                 Out(CheckOp, 1).v.error))

(***************************************************************************)
(* C8: when the error of the failing Approval is an object, requirePermit  *)
(* and requirePermission throw that very object.                           *)
(***************************************************************************)
C8_ObjectErrorThrownAsIs ==
    (Len(args) = 1 /\ Failed(CheckOp) /\ TypeOf(Out(CheckOp, 1).v.error) \notin Primitives) =>
        \A d \in {1, 2} :
            HasOut(RequireOp, d) => Out(RequireOp, d) = Throw(Out(CheckOp, 1).v.error)

\* requirePermit('x', {value: false, error: new CustomError()}, t)
C8_Witness ==
    /\ SinglePermit /\ args[1].subject = Str("x")
    /\ args[1].privilege = Approval(FALSE, CustomError(2))
    /\ HasOut("requirePermit", 1)
    /\ HasOut("requirePermit", 2)
    /\ Out("requirePermit", 2) = Throw(CustomError(2))

(***************************************************************************)
(* C9: requirePermits and requirePermissions throw the error of the        *)
(* failing Approval as it is, a primitive or absent one included, and      *)
(* throw nothing when the bulk check succeeds.                             *)
(***************************************************************************)
C9_BulkThrowsVerbatim ==
    (HasOut(BulkCheck, 1) /\ Out(BulkCheck, 1).k = "return" /\ HasOut(BulkRequire, 1)) =>
        IF ~Out(BulkCheck, 1).v.value
        THEN Out(BulkRequire, 1) = Throw(Out(BulkCheck, 1).v.error)
        ELSE Out(BulkRequire, 1).k = "return"

\* the second of two tuples failed with a string for its error
C9_Witness ==
    /\ Len(args) = 2
    /\ Failed(BulkCheck)
    /\ Out(BulkCheck, 1).v.error = Str("e")
    /\ ArgsOK /\ Min(Failing) = 2
    /\ HasOut(BulkRequire, 1)
    /\ Out(BulkRequire, 1) = Throw(Str("e"))

(***************************************************************************)
(* C10: on the same arguments isPermitted, isPermissioned, arePermitted    *)
(* and arePermissioned return the value of the Approval of the             *)
(* corresponding check, and requirePermit, requirePermission,              *)
(* requirePermits and requirePermissions throw exactly when that value is  *)
(* false.                                                                  *)
(***************************************************************************)
C10_IsAndRequireFollowCheck ==
    /\ (HasOut(CheckOp, 1) /\ Out(CheckOp, 1).k = "return") =>
        /\ HasOut(IsOp, 1) => Out(IsOp, 1) = Return(Bool(Out(CheckOp, 1).v.value))
        /\ \A d \in {1, 2} :
              HasOut(RequireOp, d) =>
                  (Out(RequireOp, d).k = "throw" <=> ~Out(CheckOp, 1).v.value)
    /\ (HasOut(BulkCheck, 1) /\ Out(BulkCheck, 1).k = "return") =>
        /\ HasOut(AreOp, 1) => Out(AreOp, 1) = Return(Bool(Out(BulkCheck, 1).v.value))
        /\ HasOut(BulkRequire, 1) =>
              (Out(BulkRequire, 1).k = "throw" <=> ~Out(BulkCheck, 1).v.value)

\* every checking operation was called on a tuple whose check waited for three
\* pending computations and passed; the bulk require has just returned
C10_Witness ==
    /\ family \in {"permit", "permission"}
    /\ Len(args) = 1
    /\ Len(results) >= 1 /\ results[Len(results)].op = BulkRequire
    /\ Out(CheckOp, 1) = Return(Approval(TRUE, Undefined))
    /\ Out(IsOp, 1) = Return(Bool(TRUE))
    /\ Out(RequireOp, 2) = Return(T)
    /\ Out(AreOp, 1) = Return(Bool(TRUE))
    /\ Out(BulkRequire, 1) = Return(Undefined)
    /\ Len(resumed) >= 3

(***************************************************************************)
(* C11: when an evaluator is given an array, every sibling that is a       *)
(* function has been invoked exactly once by the time the call reaches its *)
(* first await, whatever the other siblings are: one that yields a false   *)
(* Approval, one that fails, or one that is still pending.                 *)
(***************************************************************************)
\* how often the evaluator call whose tree is being awaited invoked function id
Invocations(id) ==
    Cardinality({j \in 1..Len(trace) :
                    /\ trace[j].id = id
                    /\ trace[j].idx = idx /\ trace[j].ev = pc /\ trace[j].ri = ri})

C11_SiblingsAllInvoked ==
    (pc \in {"permit", "privilege", "permission"} /\ Evaluated.t = "array") =>
        \A i \in 1..Len(Evaluated.items) :
            Evaluated.items[i].t = "function" =>
                Invocations(Evaluated.items[i].id) =
                    Cardinality({j \in 1..Len(Evaluated.items) :
                                    Evaluated.items[j] = Evaluated.items[i]})

\* the first sibling is still pending and will yield a false Approval; the
\* second one has been invoked
C11_Witness ==
    /\ pc = "privilege" /\ Evaluated.t = "array" /\ Len(Evaluated.items) = 2
    /\ Evaluated.items[1] = Pending(Approval(FALSE, Str("e")))
    /\ Evaluated.items[2].t = "function"
    /\ tree.k = "all" /\ tree.kids[1].k = "await" /\ tree.seen = {}
    /\ Invocations(Evaluated.items[2].id) = 1

(***************************************************************************)
(* C12: checkPermit evaluates the privilege against the Roles one after    *)
(* the other in sequence order: the invocations made for a Role all come   *)
(* before those made for a later Role, the privilege is evaluated against  *)
(* a Role only when every earlier Role got Approvals that are all true,    *)
(* and so no privilege function is invoked for a Role after a denied one.  *)
(***************************************************************************)
\* the privilege of tuple k approves the i-th Role of its permit
Approves(k, i) ==
    LET rs == RolesOf(args[k].subject, args[k].target)
    IN  /\ WellTyped(args[k].privilege, {"boolean", "Approval"}, rs[i].value)
        /\ i \notin DeniedRoles(args[k].privilege, rs)

C12_RolesOneAfterTheOther ==
    family = "permit" =>
        LET priv == {j \in 1..Len(trace) : trace[j].ev = "privilege"}
        IN  /\ \A j, l \in priv :
                  (j < l /\ trace[j].idx = trace[l].idx) => trace[j].ri <= trace[l].ri
            /\ \A j \in priv : \A i \in 1..trace[j].ri - 1 : Approves(trace[j].idx, i)
            /\ pc = "privilege" => \A i \in 1..ri - 1 : Approves(idx, i)

\* the second of three Roles was denied after privilege functions were invoked
\* for the first and for the second, and none was invoked for the third
C12_Witness ==
    /\ SinglePermit /\ cur = 1 /\ HasOut("checkPermit", 1)
    /\ LET rs == RolesOf(args[1].subject, args[1].target)
       IN  /\ Len(rs) = 3
           /\ Approves(1, 1) /\ ~Approves(1, 2)
           /\ \E j, l \in 1..Len(trace) :
                 /\ trace[j].ev = "privilege" /\ trace[j].ri = 1
                 /\ trace[l].ev = "privilege" /\ trace[l].ri = 2
           /\ \A j \in 1..Len(trace) : trace[j].ri < 3

(***************************************************************************)
(* C13: a Permit, Privilege or Permission value that is not a pending      *)
(* computation, an array, the literal type of its kind, a Role or Approval *)
(* object with a value field, or a function makes the evaluation fail with *)
(* the invalid type error of its kind, also when the value is one sibling  *)
(* of an array: the check then fails as a whole and returns nothing.       *)
(***************************************************************************)
C13_InvalidTypeFails ==
    /\ (SinglePermit /\ HasOut("checkPermit", 1)) =>
          /\ ~WellTyped(args[1].subject, {"string", "Role"}, args[1].target) =>
                Out("checkPermit", 1) = Throw(Error("Invalid Permit Type"))
          /\ (WellTyped(args[1].subject, {"string", "Role"}, args[1].target)
                /\ ~PermitTupleOK(args[1])) =>
                Out("checkPermit", 1) = Throw(Error("Invalid Privilege Type"))
    /\ (SinglePermission /\ HasOut("checkPermission", 1) /\ ~PermissionTupleOK(args[1])) =>
          Out("checkPermission", 1) = Throw(Error("Invalid Permission Type"))

(***************************************************************************)
(* C19: checkPermit on a permit that evaluates to no Role returns          *)
(* {value: true} and never evaluates the privilege, whatever the privilege *)
(* is, the literal false included; checkPermission on a permission that    *)
(* evaluates to no Approval returns a denial instead.                      *)
(***************************************************************************)
\* the permit of the single check is well typed and evaluates to no Role
NoRoles ==
    /\ SinglePermit
    /\ WellTyped(args[1].subject, {"string", "Role"}, args[1].target)
    /\ RolesOf(args[1].subject, args[1].target) = <<>>

C19_NoRolesApproved ==
    /\ NoRoles =>
          /\ pc # "privilege"
          /\ \A j \in 1..Len(trace) : trace[j].ev # "privilege"
          /\ HasOut("checkPermit", 1) =>
                Out("checkPermit", 1) = Return(Approval(TRUE, Undefined))
    /\ (SinglePermission /\ HasOut("checkPermission", 1) /\ PermissionTupleOK(args[1])
          /\ ApprovalsOf(args[1].subject, "Permission", args[1].target) = <<>>) =>
          ~Out("checkPermission", 1).v.value

\* a permit of nested empty arrays was checked against the privilege false
C19_Witness ==
    /\ NoRoles /\ HasOut("checkPermit", 1)
    /\ args[1].subject = Arr(<<Arr(<<>>), Arr(<<Arr(<<>>)>>)>>)
    /\ args[1].privilege = Bool(FALSE)
    /\ Out("checkPermit", 1) = Return(Approval(TRUE, Undefined))

(***************************************************************************)
(* C20: checkPermit materializes the whole permit first: every function    *)
(* reachable in the permit has been invoked, and the Roles of all its      *)
(* siblings are known, before the privilege is evaluated against the first *)
(* Role; no permit function is invoked after a privilege function, and a   *)
(* Role denied early does not keep a later sibling of the permit from      *)
(* having run.                                                             *)
(***************************************************************************)
RECURSIVE FunctionsOf(_, _)
\* the ids of the functions that evaluating the permit invokes
FunctionsOf(permit, target) ==
    CASE permit.t = "promise" -> FunctionsOf(permit.v, target)
      [] permit.t = "array" ->
            Flat([i \in 1..Len(permit.items) |-> FunctionsOf(permit.items[i], target)])
      [] permit.t = "function" -> <<permit.id>> \o FunctionsOf(Invoke(permit, target), target)
      [] permit.t = "mapped" ->
            <<permit.mapper.id>>
                \o FunctionsOf(permit.inner, Awaited(Invoke(permit.mapper, target)))
      [] OTHER -> <<>>

\* how many elements of the sequence s satisfy Test
CountOf(s, Test(_)) == Cardinality({j \in 1..Len(s) : Test(s[j])})

C20_PermitMaterializedFirst ==
    family = "permit" =>
        /\ \A j, l \in 1..Len(trace) :
              (trace[j].idx = trace[l].idx /\ trace[j].ev = "privilege" /\ trace[l].ev = "permit")
                  => l < j
        /\ pc = "privilege" =>
              LET fs == FunctionsOf(args[idx].subject, args[idx].target)
              IN  /\ roles = RolesOf(args[idx].subject, args[idx].target)
                  /\ \A id \in {fs[j] : j \in 1..Len(fs)} :
                        CountOf(trace, LAMBDA e : e.idx = idx /\ e.ev = "permit" /\ e.id = id)
                            = CountOf(fs, LAMBDA f : f = id)

\* the privilege denies the first Role, which came from the first sibling; the
\* second sibling, a function, has been invoked all the same
C20_Witness ==
    /\ SinglePermit /\ pc = "privilege" /\ ri = 1 /\ ~Approves(1, 1)
    /\ args[1].subject.t = "array" /\ Len(args[1].subject.items) = 2
    /\ args[1].subject.items[2].t = "function"
    /\ \E j \in 1..Len(trace) : trace[j].ev = "permit" /\ trace[j].id = args[1].subject.items[2].id

(***************************************************************************)
(* C17: createRoleSet returns the values of the Roles the permit evaluates *)
(* to, each distinct value once; createRoleSets returns the duplicate-free *)
(* union of the role sets of its (permit, target) pairs.                   *)
(***************************************************************************)
\* the values of the Roles the permit of tuple k evaluates to
RoleValues(k) ==
    LET rs == RolesOf(args[k].subject, args[k].target)
    IN  {rs[i].value : i \in 1..Len(rs)}

\* the elements of an array, and that none occurs twice in it
Elements(a) == {a.items[i] : i \in 1..Len(a.items)}
Distinct(a) == Cardinality(Elements(a)) = Len(a.items)

\* every permit of the call is well typed and evaluates to Roles only
RolesOnly ==
    \A k \in 1..Len(args) :
        /\ WellTyped(args[k].subject, {"string", "Role"}, args[k].target)

C17_RoleSets ==
    (family = "permit" /\ RolesOnly) =>
        /\ HasOut("createRoleSet", 1) =>
              /\ Out("createRoleSet", 1).k = "return"
              /\ Elements(Out("createRoleSet", 1).v) = RoleValues(1)
              /\ Distinct(Out("createRoleSet", 1).v)
        /\ HasOut("createRoleSets", 1) =>
              /\ Out("createRoleSets", 1).k = "return"
              /\ Elements(Out("createRoleSets", 1).v) = UNION {RoleValues(k) : k \in 1..Len(args)}
              /\ Distinct(Out("createRoleSets", 1).v)

\* the permit evaluates to four Roles of two values
C17_Witness ==
    /\ SinglePermit /\ HasOut("createRoleSet", 1) /\ HasOut("createRoleSets", 1)
    /\ Len(RolesOf(args[1].subject, args[1].target)) = 4
    /\ Out("createRoleSet", 1) = Return(Arr(<<Str("e"), Str("f")>>))
    /\ Out("createRoleSets", 1) = Return(Arr(<<Str("e"), Str("f")>>))

\* the two pairs of createRoleSets evaluate to the same single value
C17_UnionWitness ==
    /\ family = "permit" /\ Len(args) = 2 /\ HasOut("createRoleSets", 1)
    /\ RoleValues(1) = RoleValues(2)
    /\ Len(Out("createRoleSets", 1).v.items) = 1

(***************************************************************************)
(* C18: checkPermission(Permission.create(permit), privilege, target) has  *)
(* the outcome of checkPermit(permit, privilege, target), the same         *)
(* Approval or the same failure, and invokes the functions of the permit   *)
(* and of the privilege as often; when the pending computations complete   *)
(* in the same order in both calls, it invokes them in the same order.     *)
(***************************************************************************)
\* the index of an operation in the order of the client's calls
OpIndex(name, decl) == CHOOSE c \in 1..Len(OpOrder) : OpOrder[c] = Op(name, decl)
Direct == OpIndex("checkPermit", 2)
Created == OpIndex("checkPermissionOfCreate", 2)

C18_OrdersDiffer ==
    /\ family = "compare" /\ HasOut("checkPermissionOfCreate", 2) /\ PendingPaths(tree) = {}
    /\ sched[Created] # sched[Direct]
    /\ calls[Created] # calls[Direct]

(***************************************************************************)
(* C16: two checks that run at once, their awaits completing in any order  *)
(* relative to each other, each return the Approval that the check returns *)
(* when it runs alone.                                                     *)
(***************************************************************************)
C16_ConcurrentChecksIndependent ==
    (HasOut("checkConcurrently", 1) /\ ArgsOK) =>
        Out("checkConcurrently", 1) = Return(Arr([k \in 1..Len(args) |-> Verdict(args[k])]))

\* the awaits of the two checks completed in turns, the second check first; the
\* first check approves and the second denies
C16_Witness ==
    /\ HasOut("checkConcurrently", 1) /\ ArgsOK /\ family = "permits at once"
    /\ Len(resumed) >= 4
    /\ resumed[1][1] = 2 /\ resumed[2][1] = 1 /\ resumed[3][1] = 2 /\ resumed[4][1] = 1
    /\ Verdict(args[1]).value /\ ~Verdict(args[2]).value
    /\ Out("checkConcurrently", 1) = Return(Arr(<<Verdict(args[1]), Verdict(args[2])>>))

(***************************************************************************)
(* C14: the engine never runs the nested permission of a continuation Role *)
(* itself and never looks at its type.  In every check, checkPermission of *)
(* Permission.continuation included, the nested permission is invoked only *)
(* by a privilege function of the caller, as the first thing that function *)
(* does when it is handed a Role with a continuation of its type; a        *)
(* privilege without such a function, the literal true above all, leaves   *)
(* the nested permission alone, and the literal true approves the Role.    *)
(* The check returns what the privilege yields for the Role as it is.      *)
(***************************************************************************)
\* the id is that of a nested permission / of a function verifying continuations
IsNested(id) == id % 10 = 8
IsVerifier(id) == id % 10 = 9

RECURSIVE Verifiers(_)
\* the functions verifying continuations among the siblings of the privilege
Verifiers(privilege) ==
    CASE privilege.t = "promise" -> Verifiers(privilege.v)
      [] privilege.t = "array" ->
            UNION {Verifiers(privilege.items[i]) : i \in 1..Len(privilege.items)}
      [] privilege.t = "verifier" -> {privilege}
      [] OTHER -> {}

\* the permit: that of the check, or the one Permission.continuation made
PermitOf(a) == IF a.subject.t = "closure" THEN a.subject.permit ELSE a.subject

\* the check of tuple a hands some verifier of the privilege a continuation of
\* its type
HandsOver(a) ==
    \E v \in Verifiers(a.privilege) :
        \E r \in Elements(Arr(RolesOf(PermitOf(a), a.target))) :
            r.t = "Role" /\ Verifies(v, r.value)

C14_ContinuationOpaque ==
    (family \in {"permit", "permission"} /\ Len(args) = 1) =>
        /\ \A c \in 1..cur : \A j \in 1..Len(calls[c]) :
              IsNested(calls[c][j]) => (j > 1 /\ IsVerifier(calls[c][j - 1]))
        /\ (\E c \in 1..cur : \E j \in 1..Len(calls[c]) : IsNested(calls[c][j]))
              => HandsOver(args[1])
        /\ \A i \in 1..Len(results) :
              (results[i].op = CheckOp /\ ArgsOK) => results[i].out = Return(Verdict(args[1]))
        /\ \A i \in 1..Len(results) :
              ( /\ results[i].op = CheckOp
                /\ args[1].privilege = Bool(TRUE)
                /\ PermitOf(args[1]).t = "Role" ) =>
                    results[i].out = Return(Approval(TRUE, Undefined))

\* checkPermit of a continuation Role with the literal true has approved
C14_Witness ==
    /\ family = "permit" /\ Len(args) = 1
    /\ args[1].subject = RoleContinuation("ctx", NestedPermission, CustomError(4))
    /\ args[1].privilege = Bool(TRUE)
    /\ HasOut("checkPermit", 1)
    /\ Out("checkPermit", 1) = Return(Approval(TRUE, Undefined))
    /\ calls[1] = <<>>

\* a verifier was handed the continuation Role and ran the nested permission
\* with a target that it denies
C14_VerifierWitness ==
    /\ family = "permit" /\ Len(args) = 1
    /\ args[1].privilege = Verifier(19, "ctx", Bool(TRUE), U, Bool(TRUE))
    /\ args[1].subject.t = "array"
    /\ HasOut("checkPermit", 1)
    /\ Out("checkPermit", 1) = Return(Approval(FALSE, Str("n")))
    /\ calls[1] = <<19, 19, 18>>

\* a function that knows no continuation was handed the continuation Role of
\* Permission.continuation: the check denies with the error of the Role
C14_PermissionWitness ==
    /\ family = "permission" /\ Len(args) = 1
    /\ args[1].subject.t = "closure"
    /\ args[1].privilege.t = "function"
    /\ HasOut("checkPermission", 1)
    /\ Out("checkPermission", 1) = Return(Approval(FALSE, CustomError(4)))
    /\ calls[1] = <<14>>

(***************************************************************************)
(* C22: evaluatePermit of a finite permit of strings, Roles, nested        *)
(* arrays, pending computations that resolve and functions with finite     *)
(* results terminates: the call is never stuck, every await that completes *)
(* brings it one step closer to its end, and it needs no more steps than   *)
(* the permit has pending computations and functions.  It yields one Role  *)
(* per string or Role leaf, in the left-to-right depth-first order of the  *)
(* leaves; array nesting and empty arrays add nothing.                     *)
(***************************************************************************)
RECURSIVE Leaves(_, _)
\* the string and Role leaves of the permit, from left to right, those of the
\* results of its pending computations and functions included
Leaves(permit, target) ==
    CASE permit.t = "promise" -> Leaves(permit.v, target)
      [] permit.t = "function" -> Leaves(Invoke(permit, target), target)
      [] permit.t = "mapped" -> Leaves(permit.inner, Awaited(Invoke(permit.mapper, target)))
      [] permit.t = "array" ->
            IF permit.items = <<>> THEN <<>>
            ELSE Leaves(Head(permit.items), target) \o Leaves(Arr(Tail(permit.items)), target)
      [] OTHER -> <<permit>>

\* the Role of a leaf
LeafRole(x) == IF x.t = "string" THEN Role(x, Denial("Permit", x)) ELSE x

RECURSIVE Sum(_)
Sum(ns) == IF ns = <<>> THEN 0 ELSE Head(ns) + Sum(Tail(ns))

RECURSIVE Awaits(_, _)
\* how many pending computations and function results the permit has (a
\* function made by Permit.map awaits its mapper, and its result is awaited)
Awaits(permit, target) ==
    CASE permit.t = "promise" -> 1 + Awaits(permit.v, target)
      [] permit.t = "mapped" ->
            2 + Awaits(permit.inner, Awaited(Invoke(permit.mapper, target)))
      [] permit.t = "function" -> 1 + Awaits(Awaited(Invoke(permit, target)), target)
      [] permit.t = "array" ->
            Sum([i \in 1..Len(permit.items) |-> Awaits(permit.items[i], target)])
      [] OTHER -> 0

RECURSIVE Steps(_, _)
\* how many awaits the call with the promise tree n has yet to complete
Steps(n, target) ==
    CASE n.k = "await" -> 1 + Awaits(n.v, target)
      [] n.k = "map" -> IF n.stage = "mapper" THEN 2 + Awaits(n.x, n.tree.v)
                        ELSE 1 + Steps(n.tree, n.target)
      [] n.k = "all" -> Sum([i \in 1..Len(n.kids) |-> Steps(n.kids[i], target)])
      [] OTHER -> 0

\* evaluatePermit is running on a permit of strings, Roles, arrays, pending
\* computations and functions
EvaluatingPermit ==
    /\ busy /\ pc = "permit"
    /\ WellTyped(Subject(cur, idx), {"string", "Role"}, args[idx].target)

C22_EvaluatePermitTerminates ==
    /\ [](EvaluatingPermit =>
            LET leaves == Leaves(Subject(cur, idx), args[idx].target)
                steps == Steps(tree, args[idx].target)
            IN  /\ ~IsRejected(tree)
                /\ steps + Len(resumed) <= Awaits(Subject(cur, idx), args[idx].target)
                /\ steps = 0 <=> IsFulfilled(tree)
                /\ steps > 0 => PendingPaths(tree) # {}
                /\ IsFulfilled(tree) =>
                      Value(tree) = [i \in 1..Len(leaves) |-> LeafRole(leaves[i])])
    /\ [][(EvaluatingPermit /\ pc' = "permit" /\ Len(resumed') = Len(resumed) + 1) =>
            Steps(tree', args[idx].target) < Steps(tree, args[idx].target)]_vars

\* the permit whose leaves lie at different depths has been evaluated: its
\* three awaits have completed and it has yielded its five Roles in the order
\* of the leaves
C22_Witness ==
    /\ EvaluatingPermit /\ IsFulfilled(tree) /\ Len(resumed) = 3
    /\ args[idx].subject.t = "array" /\ Len(args[idx].subject.items) = 4
    /\ Value(tree) = <<Role(Str("a"), Denial("Permit", Str("a"))),
                       Role(Str("r"), CustomError(1)),
                       Role(Str("c"), Denial("Permit", Str("c"))),
                       Role(Str("d"), Denial("Permit", Str("d"))),
                       Role(Str("e"), Denial("Permit", Str("e")))>>

\* a leaf inside MaxDepth array literals has yielded its one Role
C22_DeepWitness ==
    /\ EvaluatingPermit /\ IsFulfilled(tree)
    /\ args[idx].subject = Nested(Str("a"), MaxDepth)
    /\ Value(tree) = <<Role(Str("a"), Denial("Permit", Str("a")))>>

(***************************************************************************)
(* C23: evaluating Permit.map(permit, mapper) with the target u settles as *)
(* evaluatePermit(permit, mapper(u)) does, with the same Roles or the same *)
(* failure, and evaluating Permission.map(permission, mapper) with the     *)
(* privilege p and the target u settles as                                 *)
(* evaluatePermission(permission, p, mapper(u)) does; the evaluator call   *)
(* that the mapped function makes is given the mapped target, so that the  *)
(* functions of the permit or permission are invoked with it, never with u.*)
(***************************************************************************)
RECURSIVE Run(_, _, _)
\* the promise tree n of a call of the evaluator ev with the arguments ctx,
\* once its awaits have completed, the leftmost first
Run(ev, n, ctx) ==
    IF PendingPaths(n) = {} THEN n
    ELSE LET p == CHOOSE q \in PendingPaths(n) :
                      \A r \in PendingPaths(n) :
                          \/ Len(q) < Len(r)
                          \/ Len(q) = Len(r) /\ \A i \in 1..Len(q) :
                                (\A j \in 1..(i - 1) : q[j] = r[j]) => q[i] <= r[i]
         IN  Run(ev, ResumeAt(ev, n, p, ctx).node, ctx)

\* the evaluator is running on a function f that Permit.map or Permission.map
\* made; the target that the mapper of f returns
EvaluatingMapped ==
    /\ busy /\ pc \in {"permit", "permission"} /\ Len(args) = 1
    /\ args[1].subject.t = "mapped"
MappedTarget == Awaited(Invoke(args[1].subject.mapper, args[1].target))

\* the call that the claim compares with: the evaluator pc called on what f
\* maps, with the mapped target, once its awaits have completed
Unmapped ==
    LET ctx == [target |-> MappedTarget, privilege |-> args[1].privilege, role |-> Undefined]
    IN  Run(pc, Evaluate(pc, args[1].subject.inner, ctx).node, ctx)

C23_MapEvaluatesWithMappedTarget ==
    EvaluatingMapped =>
        /\ IsFulfilled(tree) => (IsFulfilled(Unmapped) /\ Value(tree) = Value(Unmapped))
        /\ IsRejected(tree) => (IsRejected(Unmapped) /\ Reason(tree) = Reason(Unmapped))
        /\ (tree.k = "map" /\ tree.stage = "inner") =>
              /\ tree.target = MappedTarget
              /\ tree.target # args[1].target

\* Permit.map of a permit with a function, and a mapper that returns a pending
\* target: the call has yielded the three Roles that the permit yields for the
\* mapped target, not the two that it yields for the target of the call
C23_Witness ==
    /\ EvaluatingMapped /\ pc = "permit" /\ IsFulfilled(tree)
    /\ IsPromise(args[1].subject.mapper.hit)
    /\ Len(Value(tree)) = 3
    /\ Value(tree) = Value(Unmapped)
    /\ Value(tree) = RolesOf(args[1].subject.inner, U)
    /\ Value(tree) # RolesOf(args[1].subject.inner, args[1].target)
    /\ calls[cur] = <<10, 11>>

\* Permission.map: the call has yielded the Approvals for the mapped target
C23_PermissionWitness ==
    /\ EvaluatingMapped /\ pc = "permission" /\ IsFulfilled(tree)
    /\ Value(tree) = Value(Unmapped)
    /\ Value(tree) = ApprovalsOf(args[1].subject.inner, "Permission", U)
    /\ Value(tree) # ApprovalsOf(args[1].subject.inner, "Permission", args[1].target)
    /\ calls[cur] = <<10, 16>>

\* what Permit.map maps is no permit: the call failed as evaluatePermit does
C23_FailureWitness ==
    /\ EvaluatingMapped /\ pc = "permit" /\ IsRejected(tree)
    /\ Reason(tree) = Error("Invalid Permit Type")

(***************************************************************************)
(* C21: an error that a function of the caller throws, or that a pending   *)
(* computation of the caller rejects with, makes the call of evaluate*,    *)
(* check*, is* and are* fail with that same error; the call never returns  *)
(* an Approval instead, false or true; and a bulk check fails with it only *)
(* if no earlier tuple has failed its check.                               *)
(***************************************************************************)
RECURSIVE ErrorsOf(_, _)
\* the errors that the functions and the pending computations of x fail
\* with, its functions being called with a
ErrorsOf(x, a) ==
    CASE x.t = "thrown" -> {x.err}
      [] x.t = "promise" -> ErrorsOf(x.v, a)
      [] x.t = "array" -> UNION {ErrorsOf(x.items[i], a) : i \in 1..Len(x.items)}
      [] x.t = "function" -> ErrorsOf(Invoke(x, a), a)
      [] OTHER -> {}

\* the errors that the evaluation of a permit tuple meets first: those of its
\* permit, or else those of its privilege for the first Role that it fails
\* for, unless it denies an earlier Role
PermitRaises(permit, privilege, target) ==
    IF ~WellTyped(permit, {"string", "Role", "thrown"}, target) THEN {}
    ELSE IF ErrorsOf(permit, target) # {} THEN ErrorsOf(permit, target)
    ELSE LET rs == RolesOf(permit, target)
             E == {i \in 1..Len(rs) : ErrorsOf(privilege, rs[i].value) # {}}
             D == DeniedRoles(privilege, rs)
         IN  IF E = {} \/ (D # {} /\ Min(D) < Min(E)) THEN {}
             ELSE IF \A i \in 1..Min(E) :
                        WellTyped(privilege, {"boolean", "Approval", "thrown"}, rs[i].value)
             THEN ErrorsOf(privilege, rs[Min(E)].value)
             ELSE {}

PermissionRaises(permission, target) ==
    IF WellTyped(permission, {"boolean", "Approval", "thrown"}, target)
    THEN ErrorsOf(permission, target)
    ELSE {}

\* the errors that the check of the tuple a may fail with
Raises(a) ==
    IF OfPermits THEN PermitRaises(a.subject, a.privilege, a.target)
    ELSE PermissionRaises(a.subject, a.target)

\* the tuples whose check fails with an error or returns a false Approval
Stops == {k \in 1..Len(args) : Raises(args[k]) # {} \/ ~Verdict(args[k]).value}

\* the client's tuples have no value of an invalid type
Typed ==
    /\ family \in {"permit", "permission"}
    /\ \A k \in 1..Len(args) : Raises(args[k]) # {} \/ TupleOK(args[k])

ReturningOps == {"checkPermit", "checkPermits", "checkPermission", "checkPermissions"}
AnsweringOps == {"isPermitted", "arePermitted", "isPermissioned", "arePermissioned"}

\* the errors that the evaluator call in progress may fail with
EvaluatorRaises ==
    CASE pc = "permit" ->
            IF WellTyped(Subject(cur, idx), {"string", "Role", "thrown"}, args[idx].target)
            THEN ErrorsOf(Subject(cur, idx), args[idx].target) ELSE {}
      [] pc = "privilege" ->
            IF WellTyped(args[idx].privilege, {"boolean", "Approval", "thrown"}, roles[ri].value)
            THEN ErrorsOf(args[idx].privilege, roles[ri].value) ELSE {}
      [] pc = "permission" -> PermissionRaises(Subject(cur, idx), args[idx].target)
      [] OTHER -> {}

\* the operation that has just settled, if it is a check*, is* or are*
Settled ==
    /\ ~busy /\ Len(results) >= 1
    /\ results[Len(results)].op \in ReturningOps \cup AnsweringOps

C21_ErrorsPropagate ==
    /\ (Settled /\ Typed) =>
          LET first == IF Stops = {} THEN 0 ELSE Min(Stops)
              raises == IF first = 0 THEN {} ELSE Raises(args[first])
              result == results[Len(results)]
          IN  IF raises # {}
              THEN result.out.k = "throw" /\ result.out.v \in raises
              ELSE /\ result.out.k = "return"
                   /\ (first # 0 /\ result.op \in ReturningOps) =>
                         result.out = Return(Verdict(args[first]))
    /\ (family \in {"permit", "permission"} /\ IsSettled(tree) /\ EvaluatorRaises # {}) =>
          /\ IsRejected(tree)
          /\ Reason(tree) \in EvaluatorRaises

\* the second tuple of a bulk check fails with the error that its privilege
\* function throws for the second Role, the first tuple having passed
C21_Witness ==
    /\ family = "permit" /\ Len(args) = 2
    /\ Stops = {2}
    /\ args[2].privilege.t = "function"
    /\ Len(results) >= 1
    /\ results[Len(results)].op = "arePermitted"
    /\ results[Len(results)].out = Throw(CustomError(24))
    /\ calls[cur] = <<24, 24>>

\* the error of the second tuple is not raised: the first tuple failed its
\* check, and the function of the second tuple was not called
C21_EarlierFailureWitness ==
    /\ family = "permit" /\ Len(args) = 2
    /\ Raises(args[1]) = {} /\ Raises(args[2]) # {}
    /\ args[2].subject.t = "function"
    /\ Len(results) >= 1
    /\ results[Len(results)].op = "checkPermits"
    /\ results[Len(results)].out = Return(Approval(FALSE, Str("e")))
    /\ calls[cur] = <<>>

\* a pending privilege rejects beside a sibling that is false
C21_FalseSiblingWitness ==
    /\ family = "permit" /\ Len(args) = 1
    /\ args[1].privilege.t = "array"
    /\ Bool(FALSE) \in {args[1].privilege.items[i] : i \in 1..Len(args[1].privilege.items)}
    /\ Len(results) >= 1
    /\ results[Len(results)].op = "isPermitted"
    /\ results[Len(results)].out = Throw(CustomError(14))

\* of a function that throws and a pending computation that rejects, the
\* function fails first
C21_RaceWitness ==
    /\ family = "permission" /\ Len(args) = 1
    /\ Raises(args[1]) = {CustomError(1), CustomError(2)}
    /\ Len(results) >= 1
    /\ results[Len(results)].op = "checkPermission"
    /\ results[Len(results)].out = Throw(CustomError(2))

\* evaluatePermit fails with the error that its pending permit rejects with
C21_EvaluatorWitness ==
    /\ family = "permit" /\ pc = "permit"
    /\ args[idx].subject = Pending(Thrown(Str("p")))
    /\ resumed # <<>>
    /\ IsRejected(tree) /\ Reason(tree) = Str("p")

====
